---- MODULE Spec2Model ----
(***************************************************************************)
(* Cohesix boot integrity pipeline: the SHA-1 digest engine and the UEFI   *)
(* image verifier (efi_main), and the CRC-32 trampoline gate               *)
(* (boot_trampoline).                                                      *)
(*                                                                         *)
(* A uint32_t is modelled as the pair <<hi, lo>> of its two 16-bit halves  *)
(* (TLC's integers are 32-bit signed), all arithmetic is modulo 2^32.      *)
(* A C string is modelled as the sequence of its characters before NUL.    *)
(***************************************************************************)
EXTENDS Integers, Sequences, FiniteSets, TLC

\* ------------------------------------------------------------------------
\* uint32_t arithmetic on <<hi, lo>> halves
\* ------------------------------------------------------------------------
RECURSIVE BitXor(_, _, _)
BitXor(a, b, n) ==
    IF n = 0 THEN 0
    ELSE ((a + b) % 2) + 2 * BitXor(a \div 2, b \div 2, n - 1)

RECURSIVE BitAnd(_, _, _)
BitAnd(a, b, n) ==
    IF n = 0 THEN 0
    ELSE ((a % 2) * (b % 2)) + 2 * BitAnd(a \div 2, b \div 2, n - 1)

XorTab == [a \in 0..15 |-> [b \in 0..15 |-> BitXor(a, b, 4)]]
AndTab == [a \in 0..15 |-> [b \in 0..15 |-> BitAnd(a, b, 4)]]

Xor8(a, b) == XorTab[a \div 16][b \div 16] * 16 + XorTab[a % 16][b % 16]
And8(a, b) == AndTab[a \div 16][b \div 16] * 16 + AndTab[a % 16][b % 16]
Xor16(a, b) == Xor8(a \div 256, b \div 256) * 256 + Xor8(a % 256, b % 256)
And16(a, b) == And8(a \div 256, b \div 256) * 256 + And8(a % 256, b % 256)

Pow2(n) == CASE n = 0 -> 1 [] n = 1 -> 2 [] n = 2 -> 4 [] n = 3 -> 8
             [] n = 4 -> 16 [] n = 5 -> 32 [] n = 6 -> 64 [] n = 7 -> 128
             [] n = 8 -> 256 [] n = 9 -> 512 [] n = 10 -> 1024
             [] n = 11 -> 2048 [] n = 12 -> 4096 [] n = 13 -> 8192
             [] n = 14 -> 16384 [] n = 15 -> 32768 [] n = 16 -> 65536

\* F applied to the values of its arguments, each evaluated once
Let1(F(_), e) == CHOOSE r \in {F(x) : x \in {e}} : TRUE
Let2(F(_, _), d, e) == CHOOSE r \in {F(x, y) : x \in {d}, y \in {e}} : TRUE
Let3(F(_, _, _), d, e, f) ==
    CHOOSE r \in {F(x, y, z) : x \in {d}, y \in {e}, z \in {f}} : TRUE
Let4(F(_, _, _, _), d, e, f, g) ==
    CHOOSE r \in {F(x, y, z, u) : x \in {d}, y \in {e}, z \in {f}, u \in {g}} :
        TRUE

U32(hi, lo) == <<hi, lo>>
Xor32(x, y) == <<Xor16(x[1], y[1]), Xor16(x[2], y[2])>>
And32(x, y) == <<And16(x[1], y[1]), And16(x[2], y[2])>>
Or32(x, y)  ==
    <<x[1] + y[1] - And16(x[1], y[1]), x[2] + y[2] - And16(x[2], y[2])>>
Not32(x)    == <<65535 - x[1], 65535 - x[2]>>
Add32(x, y) ==
    <<(x[1] + y[1] + ((x[2] + y[2]) \div 65536)) % 65536,
      (x[2] + y[2]) % 65536>>
\* x >> 1 on 32 bits
Shr32(x) == <<x[1] \div 2, (x[2] \div 2) + 32768 * (x[1] % 2)>>
\* rotate left by n, 0 < n < 16
RotlSmall(x, n) ==
    <<((x[1] % Pow2(16 - n)) * Pow2(n)) + (x[2] \div Pow2(16 - n)),
      ((x[2] % Pow2(16 - n)) * Pow2(n)) + (x[1] \div Pow2(16 - n))>>
\* (x << n) | (x >> (32 - n)) for n in 1..31
Rotl32(x, n) ==
    IF n = 16 THEN <<x[2], x[1]>>
    ELSE IF n < 16 THEN RotlSmall(x, n)
    ELSE RotlSmall(<<x[2], x[1]>>, n - 16)

WXor(x, y) == Let2(Xor32, x, y)
WAnd(x, y) == Let2(And32, x, y)
WOr(x, y)  == Let2(Or32, x, y)
WNot(x)    == Let1(Not32, x)
WAdd(x, y) == Let2(Add32, x, y)
WShr1(x)   == Let1(Shr32, x)
rotl(x, n) == Let2(Rotl32, x, n)

\* ------------------------------------------------------------------------
\* Digest engine (sha1.c)
\* ------------------------------------------------------------------------
Byte == 0..255

\* w[i] = block[4i]<<24 | block[4i+1]<<16 | block[4i+2]<<8 | block[4i+3]
\* (block is a 1-indexed sequence of 64 bytes, i counts from 0)
LoadBE(block, i) ==
    <<block[4 * i + 1] * 256 + block[4 * i + 2],
      block[4 * i + 3] * 256 + block[4 * i + 4]>>

\* w is 1-indexed here: w[i+1] is the C w[i].
\* One iteration of  for (i = 16; i < 80; i++) w[i] = rotl(..., 1).
ExpandStep(w, i) ==
    Append(w, rotl(WXor(WXor(w[i - 2], w[i - 7]),
                        WXor(w[i - 13], w[i - 15])), 1))

\* The n iterations i, i+1, ..., i+n-1 of that loop, in order (the range is
\* halved instead of counted down to keep the evaluation stack shallow).
RECURSIVE ExpandW(_, _, _)
ExpandW(w, i, n) ==
    IF n = 1 THEN ExpandStep(w, i)
    ELSE Let3(ExpandW, Let3(ExpandW, w, i, n \div 2),
              i + (n \div 2), n - (n \div 2))

Schedule(block) ==
    Let3(ExpandW, SubSeq([i \in 1..16 |-> LoadBE(block, i - 1)], 1, 16),
         16, 64)

RoundF(i, b, c, d) ==
    IF i < 20 THEN WOr(WAnd(b, c), WAnd(WNot(b), d))
    ELSE IF i < 40 THEN WXor(WXor(b, c), d)
    ELSE IF i < 60 THEN WOr(WOr(WAnd(b, c), WAnd(b, d)), WAnd(c, d))
    ELSE WXor(WXor(b, c), d)

RoundK(i) ==
    IF i < 20 THEN U32(23170, 31129)        \* 0x5A827999
    ELSE IF i < 40 THEN U32(28377, 60321)   \* 0x6ED9EBA1
    ELSE IF i < 60 THEN U32(36635, 48348)   \* 0x8F1BBCDC
    ELSE U32(51810, 49622)                  \* 0xCA62C1D6

\* One iteration of the 80-step loop; v = <<a, b, c, d, e>>.
Round(v, w, i) ==
    LET A1(x) == WAdd(x, RoundF(i, v[2], v[3], v[4]))
        A2(x) == WAdd(x, v[5])
        A3(x) == WAdd(x, RoundK(i))
        A4(x) == WAdd(x, w[i + 1])
        temp  == Let1(A4, Let1(A3, Let1(A2, Let1(A1, rotl(v[1], 5)))))
    IN  <<temp, v[1], rotl(v[2], 30), v[3], v[4]>>

\* The n iterations i, ..., i+n-1 of the loop, in order.
RECURSIVE Rounds(_, _, _, _)
Rounds(v, w, i, n) ==
    IF n = 1 THEN Round(v, w, i)
    ELSE Let4(Rounds, Let4(Rounds, v, w, i, n \div 2), w,
              i + (n \div 2), n - (n \div 2))

sha1_transform(state, block) ==
    LET Run(w) == Let4(Rounds, state, w, 0, 80)
        Sum(v) ==
            <<WAdd(state[1], v[1]), WAdd(state[2], v[2]), WAdd(state[3], v[3]),
              WAdd(state[4], v[4]), WAdd(state[5], v[5])>>
    IN  Let1(Sum, Let1(Run, Schedule(block)))

\* The context: state[5], bitlen, buffer[64] (1-indexed, stale bytes kept),
\* buflen; calls records the blocks handed to sha1_transform, in order.
InitVector ==
    <<U32(26437, 8961),     \* 0x67452301
      U32(61389, 43913),    \* 0xEFCDAB89
      U32(39098, 56574),    \* 0x98BADCFE
      U32(4146, 21622),     \* 0x10325476
      U32(50130, 57840)>>   \* 0xC3D2E1F0

\* the slip of leaving the bit count as it was
sha1_init_KeepsBitlen(c) ==
    [c EXCEPT !.state = InitVector, !.buflen = 0]

sha1_init(c) ==
    [c EXCEPT !.state = InitVector, !.bitlen = 0, !.buflen = 0]

Min(a, b) == IF a < b THEN a ELSE b

\* the slip of copying to the start of the buffer
CopyInAtStart(buffer, buflen, data, n) ==
    SubSeq(data, 1, n) \o SubSeq(buffer, n + 1, 64)

\* memcpy(ctx->buffer + ctx->buflen, data, n)
CopyIn(buffer, buflen, data, n) ==
    SubSeq(buffer, 1, buflen) \o SubSeq(data, 1, n)
        \o SubSeq(buffer, buflen + n + 1, 64)

\* the while (len > 0) loop of sha1_update
RECURSIVE UpdateLoop(_, _)
UpdateLoop(c, data) ==
    IF Len(data) = 0 THEN c
    ELSE LET n == Min(64 - c.buflen, Len(data))
             Copy(buf) ==
                 [c EXCEPT !.buffer = buf, !.buflen = c.buflen + n]
             Flush(c1) ==
                 IF c1.buflen = 64
                 THEN [c1 EXCEPT
                          !.state = sha1_transform(c1.state, c1.buffer),
                          !.calls = Append(c1.calls, c1.buffer),
                          !.buflen = 0]
                 ELSE c1
         IN  Let2(UpdateLoop,
                  Let1(Flush, Let1(Copy, CopyIn(c.buffer, c.buflen, data, n))),
                  SubSeq(data, n + 1, Len(data)))

\* the slip of not counting the bits
sha1_update_NoBitlen(c, data) ==
    Let2(UpdateLoop, c, data)

sha1_update(c, data) ==
    Let2(UpdateLoop, [c EXCEPT !.bitlen = c.bitlen + Len(data) * 8], data)

\* the slip of storing the length low byte first
LenByteLittleEndian(bitlen, i) ==
    IF i > 3 THEN 0
    ELSE (bitlen \div (CASE i = 3 -> 16777216 [] i = 2 -> 65536
                         [] i = 1 -> 256 [] i = 0 -> 1)) % 256

\* (uint8_t)(be >> (56 - 8*i)), i in 0..7; bitlen stays below 2^31 here
LenByte(bitlen, i) ==
    IF i < 4 THEN 0
    ELSE (bitlen \div (CASE i = 4 -> 16777216 [] i = 5 -> 65536
                         [] i = 6 -> 256 [] i = 7 -> 1)) % 256

\* buffer[k] for k in from..to-1 (0-based) set to 0
ZeroFill(buffer, from, to) ==
    SubSeq(buffer, 1, from) \o SubSeq([k \in 1..64 |-> 0], 1, to - from)
        \o SubSeq(buffer, to + 1, 64)

\* the slip of an off-by-one threshold
NeedsExtraBlockOffByOne(buflen) == buflen > 57

\* if (ctx->buflen > 56), after the pad byte was stored
NeedsExtraBlock(buflen) == buflen > 56

\* sha1_final leaves the padded context behind and yields the 20 digest bytes
FinalCtx(c) ==
    LET \* ctx->buffer[ctx->buflen++] = 0x80
        Pad(c0) ==
            [c0 EXCEPT !.buffer = [c0.buffer EXCEPT ![c0.buflen + 1] = 128],
                       !.buflen = c0.buflen + 1]
        \* if (ctx->buflen > 56) { zero-fill to 64; transform; buflen = 0 }
        Extra(c1) ==
            IF NeedsExtraBlock(c1.buflen)
            THEN LET Tr(b) ==
                         [c1 EXCEPT !.buffer = b,
                                    !.state = sha1_transform(c1.state, b),
                                    !.calls = Append(c1.calls, b),
                                    !.buflen = 0]
                 IN  Let1(Tr, ZeroFill(c1.buffer, c1.buflen, 64))
            ELSE c1
        \* zero-fill to 56, the 8 length bytes, the last transform
        Last(c2) ==
            LET Tr(b) ==
                    [c2 EXCEPT !.buffer = b, !.buflen = 56,
                               !.state = sha1_transform(c2.state, b),
                               !.calls = Append(c2.calls, b)]
            IN  Let1(Tr, SubSeq(ZeroFill(c2.buffer, c2.buflen, 56), 1, 56)
                    \o SubSeq([i \in 1..8 |-> LenByte(c2.bitlen, i - 1)],
                              1, 8))
    IN  Let1(Last, Let1(Extra, Let1(Pad, c)))

DigestOf(state) ==
    SubSeq([k \in 1..20 |->
        LET wd == state[((k - 1) \div 4) + 1]
            r  == (k - 1) % 4
        IN  CASE r = 0 -> wd[1] \div 256
              [] r = 1 -> wd[1] % 256
              [] r = 2 -> wd[2] \div 256
              [] r = 3 -> wd[2] % 256], 1, 20)

sha1_final(c) ==
    LET Out(cf) == DigestOf(cf.state)
    IN  Let1(Out, FinalCtx(c))

HexDigits ==
    <<"0", "1", "2", "3", "4", "5", "6", "7",
      "8", "9", "a", "b", "c", "d", "e", "f">>

NUL == ""                            \* the character '\0'

\* the slip of writing the low nibble first
sha1_to_hex_LowNibbleFirst(digest) ==
    SubSeq([k \in 1..40 |->
        IF k % 2 = 1 THEN HexDigits[(digest[(k + 1) \div 2] % 16) + 1]
        ELSE HexDigits[(digest[k \div 2] \div 16) + 1]], 1, 40) \o <<NUL>>

\* out[0..40]: out[2i] and out[2i+1] from digest[i], out[40] = '\0'
sha1_to_hex(digest) ==
    LET Out(d) ==
            SubSeq([k \in 1..40 |->
                IF k % 2 = 1 THEN HexDigits[(d[(k + 1) \div 2] \div 16) + 1]
                ELSE HexDigits[(d[k \div 2] % 16) + 1]], 1, 40) \o <<NUL>>
    IN  Let1(Out, digest)


\* ------------------------------------------------------------------------
\* CRC-32 of the trampoline gate (boot_trampoline.c)
\* ------------------------------------------------------------------------
\* boot_trampoline.c names its constants COH_BOOT_TRAMPOLINE_*;
\* boot_trampoline.h gives their values as BOOT_TRAMPOLINE_*.
BOOT_TRAMPOLINE_CRC_POLYNOMIAL == U32(60856, 33568)     \* 0xEDB88320u
BOOT_TRAMPOLINE_LOG_SIZE == 128

\* -(int)(crc & 1) as a 32-bit pattern: 0 or all ones
NegLowBit(crc) == IF crc[2] % 2 = 1 THEN U32(65535, 65535) ELSE U32(0, 0)

\* crc = (crc >> 1) ^ (POLY & (-(int)(crc & 1)))
CrcBit(crc) ==
    WXor(WShr1(crc), WAnd(BOOT_TRAMPOLINE_CRC_POLYNOMIAL, NegLowBit(crc)))

\* the inner loop: for (j = 0; j < 8; ++j)
CrcBits8(crc) ==
    Let1(CrcBit, Let1(CrcBit, Let1(CrcBit, Let1(CrcBit,
        Let1(CrcBit, Let1(CrcBit, Let1(CrcBit, Let1(CrcBit, crc))))))))

\* one iteration of the outer loop: crc ^= data[i]; then the eight shifts
CrcByte(crc, byte) == CrcBits8(WXor(crc, U32(0, byte)))

\* the slip of a crc that keeps its value from the call before
CrcEntryCarried(prev) == prev

\* uint32_t crc = ~0u: the value of the local on entry, whatever the storage
\* held before
CrcEntry(prev) == WNot(U32(0, 0))

\* the outer loop from index i (0-based) to len
RECURSIVE CrcLoop(_, _, _, _)
CrcLoop(crc, data, i, len) ==
    IF i >= len THEN crc
    ELSE Let4(CrcLoop, CrcByte(crc, data[i + 1]), data, i + 1, len)

\* the slip of returning crc without the final complement
crc32_calc_NoComplement(data, len) ==
    Let4(CrcLoop, WNot(U32(0, 0)), data, 0, len)

crc32_calc(data, len) ==
    WNot(Let4(CrcLoop, WNot(U32(0, 0)), data, 0, len))

\* ------------------------------------------------------------------------
\* Console and log buffer of the trampoline (boot_trampoline.c)
\* ------------------------------------------------------------------------
PtrBytes == 8      \* sizeof(uintptr_t)

STR_trampoline == <<"t", "r", "a", "m", "p", "o", "l", "i", "n", "e", " ">>
STR_crc == <<" ", "c", "r", "c", " ">>
STR_ok == <<"o", "k">>
STR_fail == <<"f", "a", "i", "l">>
STR_nl == <<"\n">>
STR_BOOT_OK == <<"B", "O", "O", "T", "_", "O", "K">>
STR_BOOT_FAIL == <<"B", "O", "O", "T", "_", "F", "A", "I", "L", ":">>
STR_crc_mismatch ==
    <<"c", "r", "c", "_", "m", "i", "s", "m", "a", "t", "c", "h">>
STR_panic ==
    <<"p", "a", "n", "i", "c", ":", " ", "t", "r", "a", "m", "p", "o", "l",
      "i", "n", "e", " ", "C", "R", "C", " ", "m", "i", "s", "m", "a", "t",
      "c", "h", "\n">>

\* the characters of the string at msg: those before the first NUL (a
\* tuple without one is a literal whose terminator is left out)
CString(msg) ==
    LET nuls == {i \in 1..Len(msg) : msg[i] = NUL}
    IN  IF nuls = {} THEN msg
        ELSE SubSeq(msg, 1, (CHOOSE i \in nuls : \A j \in nuls : i <= j) - 1)

\* the UART register receives the bytes one at a time; con is what it has
\* received so far, one element for each store
console_putc(con, c) == Append(con, c)

\* the slip of testing the character after the one to be written
console_write_StopsEarly(con, msg) ==
    con \o SubSeq(CString(msg), 1, Len(CString(msg)) - 1)

\* while (*msg) console_putc(*msg++)
console_write(con, msg) == con \o CString(msg)
console_write_line(con, msg) == console_putc(console_write(con, msg), "\n")
\* the slip of leaving the reason out of the marker
emit_fail_console_NoReason(con, reason) ==
    console_putc(console_write(con, STR_BOOT_FAIL), "\n")

emit_fail_console(con, reason) ==
    console_putc(console_write(console_write(con, STR_BOOT_FAIL), reason), "\n")
\* the slip of writing the marker without its end of line
emit_success_telemetry_NoNewline(con) == console_write(con, STR_BOOT_OK)

emit_success_telemetry(con) == console_write_line(con, STR_BOOT_OK)

\* the slip of starting over at the front of a full buffer
log_write_Wrapped(lg, msg) ==
    LET at   == IF lg.log_pos = BOOT_TRAMPOLINE_LOG_SIZE - 1 THEN 0
                ELSE lg.log_pos
        room == (BOOT_TRAMPOLINE_LOG_SIZE - 1) - at
        n    == IF Len(msg) < room THEN Len(msg) ELSE room
    IN  [uart |-> lg.uart \o msg,
         fallback_log |-> SubSeq(lg.fallback_log, 1, at)
                          \o SubSeq(msg, 1, n) \o <<NUL>>
                          \o SubSeq(lg.fallback_log, at + n + 2,
                                    BOOT_TRAMPOLINE_LOG_SIZE),
         log_pos |-> at + n]

\* lg = [uart, fallback_log, log_pos]: uart is all that was written to
\* *UART0, fallback_log the array of BOOT_TRAMPOLINE_LOG_SIZE characters.
\* Every character of s goes to the UART; characters are stored while
\* log_pos < sizeof(fallback_log) - 1; fallback_log[log_pos] = '\0'.
log_write(lg, msg) ==
    LET str  == CString(msg)
        room == (BOOT_TRAMPOLINE_LOG_SIZE - 1) - lg.log_pos
        n    == IF Len(str) < room THEN Len(str) ELSE room
    IN  [uart |-> lg.uart \o str,
         fallback_log |-> SubSeq(lg.fallback_log, 1, lg.log_pos)
                          \o SubSeq(str, 1, n) \o <<NUL>>
                          \o SubSeq(lg.fallback_log, lg.log_pos + n + 2,
                                    BOOT_TRAMPOLINE_LOG_SIZE),
         log_pos |-> lg.log_pos + n]

\* a uintptr_t is the sequence of its 16-bit quarters, most significant
\* first; (value >> shift) & 0xF
NibbleAt(value, shift) ==
    (value[(Len(value) - (shift \div 16))] \div Pow2(shift % 16)) % 16

\* the slip of formatting the least significant nibble first
write_hex_LowNibbleFirst(lg, value) ==
    LET Out(buf) == log_write(lg, buf)
    IN  Let1(Out, <<"0", "x">> \o
            SubSeq([i \in 1..(PtrBytes * 2) |->
                       HexDigits[NibbleAt(value, (i - 1) * 4) + 1]],
                   1, PtrBytes * 2) \o <<NUL>>)

\* buf = "0x", the 2 * sizeof(uintptr_t) digits, '\0'; log_write(buf)
write_hex(lg, value) ==
    LET Out(buf) == log_write(lg, buf)
    IN  Let1(Out, <<"0", "x">> \o
            SubSeq([i \in 1..(PtrBytes * 2) |->
                       HexDigits[NibbleAt(value,
                                          (PtrBytes * 2 - 1 - (i - 1)) * 4) + 1]],
                   1, PtrBytes * 2) \o <<NUL>>)

log_status(lg, entry, ok) ==
    LET S1(l) == log_write(l, STR_trampoline)
        S2(l) == write_hex(l, entry)
        S3(l) == log_write(l, STR_crc)
        S4(l) == log_write(l, IF ok # 0 THEN STR_ok ELSE STR_fail)
        S5(l) == log_write(l, STR_nl)
    IN  Let1(S5, Let1(S4, Let1(S3, Let1(S2, Let1(S1, lg)))))


\* ------------------------------------------------------------------------
\* State
\* ------------------------------------------------------------------------
VARIABLES
    \* boot_trampoline
    pc,                      \* position in boot_trampoline
    hdr,                     \* __trampoline_hdr: [crc, length]
    mem,                     \* the bytes at &rust_early_init
    entry,                   \* (uintptr_t)&rust_early_init
    boot_trampoline_crc_ok,  \* the global flag
    calc,                    \* local calc
    crc,                     \* crc32_calc: accumulator
    crc_i,                   \* crc32_calc: loop index
    uart,                    \* bytes stored to *UART0, in order
    fallback_log,            \* the array fallback_log
    log_pos,
    rust_calls,              \* number of calls of rust_early_init
    crc_calls,               \* number of calls of crc32_calc
    \* a caller of crc32_calc
    cdata,                   \* the bytes at data
    cresult,                 \* the value returned, <<>> before the call
    cpc,                     \* the caller's position: idle, or in the loop
    cagain,                  \* the value a second call returned, <<>> before
    \* a caller of the digest engine
    smsg,                    \* the bytes to digest
    sctx,                    \* the sha1_ctx
    sfed,                    \* bytes of smsg passed to sha1_update so far
    sfirst,                  \* len of the first sha1_update call, 0 before
    szero,                   \* sha1_update calls with len == 0 so far
    sruns,                   \* digests this context has produced before
    spc,                     \* position of the caller
    sdigest,                 \* digest[20] after sha1_final
    shex,                    \* hex[41] after sha1_to_hex
    \* efi_main
    epc,                     \* position in efi_main
    kernel,                  \* the file \kernel.elf
    kpos,                    \* file position of kfile
    kreads,                  \* calls of kfile->Read so far
    kfile_open,              \* kfile is an open handle
    ectx,                    \* ctx
    actual_hex,              \* actual_hex[41]
    hashfile,                \* the file \kernel.sha1
    expected,                \* expected[41]
    hsz,
    boot_log,                \* characters of \boot.log
    log0,                    \* characters of \boot.log when efi_main starts
    status,                  \* local status
    ret,                     \* value returned by efi_main, "none" before
    loaded,                  \* path of the image LoadImage produced
    started,                 \* path of the image passed to StartImage
    econsole,                \* lines given to Print, in order
    fault,                   \* the firmware call that failed on an artifact
    hread,                   \* characters Read delivered from kernel.sha1
    log_appends,             \* calls of log_message so far
    log_result,              \* how the last log_message call ended
    \* a caller of log_write
    lcalls,                  \* the strings passed to log_write so far
    \* the root task (bootloader.c)
    bpc,                     \* position in main
    env,                     \* the environment variable COHROLE
    bootargs,                \* the file /boot/bootargs.txt
    cohrole,                 \* the file /srv/cohrole
    validator,               \* whether /srv/validator/live.sock exists
    role,                    \* const char *role of main, <<>> before
    script,                  \* const char *script of main
    armed,                   \* whether an alarm is pending
    boot_error,              \* lines appended to /state/boot_error
    bootlog,                 \* lines appended to /log/bootloader_init.log
    bconsole,                \* strings written to /dev/console
    bsuccess,                \* strings written to the boot-success file
    caps,                    \* how assign_caps ended
    bstatus,                 \* exit status of the process, -1 while none
    bevents,                 \* the calls main has made, in order
    wrote_role,              \* whether main stored role in /srv/cohrole
    execs,                   \* the argument vectors passed to execv
    opens                    \* the open() calls of main and how they ended

tvars == <<pc, hdr, mem, entry, boot_trampoline_crc_ok, calc, crc, crc_i,
           uart, fallback_log, log_pos, rust_calls, crc_calls>>

crcVars == <<cdata, cresult, cpc, cagain>>

shaVars == <<smsg, sctx, sfed, sfirst, szero, sruns, spc, sdigest,
            shex>>

bootVars == <<bpc, env, bootargs, cohrole, validator, role, script, armed,
             boot_error, bootlog, bconsole, bsuccess, caps, bstatus, bevents,
             wrote_role, execs, opens>>

efiVars == <<epc, kernel, kpos, kreads, kfile_open, ectx, actual_hex, hashfile,
             expected, hsz, boot_log, log0, status, ret, loaded, started,
             econsole, fault, hread, log_appends, log_result>>

vars == <<tvars, crcVars, shaVars, efiVars, lcalls, bootVars>>

\* the programs not running in a specification stay as they are
NoCrcCaller ==
    /\ cdata = <<>>
    /\ cresult = <<>>
    /\ cpc = "none"
    /\ cagain = <<>>

NoCtx == [state |-> <<>>, bitlen |-> 0, buffer |-> <<>>, buflen |-> 0,
          calls |-> <<>>]

NoShaCaller ==
    /\ smsg = <<>>
    /\ sctx = NoCtx
    /\ sfed = 0
    /\ sfirst = 0
    /\ szero = 0
    /\ sruns = 0
    /\ spc = "none"
    /\ sdigest = <<>>
    /\ shex = <<>>

\* a file of the boot volume: whether it exists, and its content
NoFile == [exists |-> FALSE, data |-> <<>>]

NoEfi ==
    /\ epc = "none"
    /\ kernel = NoFile
    /\ kpos = 0
    /\ kreads = 0
    /\ kfile_open = FALSE
    /\ ectx = NoCtx
    /\ actual_hex = <<>>
    /\ hashfile = NoFile
    /\ expected = <<>>
    /\ hsz = 0
    /\ boot_log = <<>>
    /\ log0 = <<>>
    /\ status = "none"
    /\ ret = "none"
    /\ loaded = "none"
    /\ started = "none"
    /\ econsole = <<>>
    /\ fault = "none"
    /\ hread = <<>>
    /\ log_appends = 0
    /\ log_result = "none"

NoLogCaller == lcalls = <<>>

\* static storage is zero-initialised
ZeroedLog ==
    SubSeq([k \in 1..BOOT_TRAMPOLINE_LOG_SIZE |-> NUL], 1,
           BOOT_TRAMPOLINE_LOG_SIZE)

\* an environment variable that is not set
NoEnvVar == [set |-> FALSE, val |-> <<>>]

NoBoot ==
    /\ bpc = "none"
    /\ env = NoEnvVar
    /\ bootargs = NoFile
    /\ cohrole = NoFile
    /\ validator = FALSE
    /\ role = <<>>
    /\ script = "none"
    /\ armed = FALSE
    /\ boot_error = <<>>
    /\ bootlog = <<>>
    /\ bconsole = <<>>
    /\ bsuccess = <<>>
    /\ caps = "none"
    /\ bstatus = -1
    /\ bevents = <<>>
    /\ wrote_role = FALSE
    /\ execs = <<>>
    /\ opens = <<>>

\* all of the trampoline but its flag, which a later program reads
TrampolineIdle ==
    /\ pc = "none"
    /\ hdr = [crc |-> <<0, 0>>, length |-> 0]
    /\ mem = <<>>
    /\ entry = <<0, 0, 0, 0>>
    /\ calc = <<0, 0>>
    /\ crc = <<0, 0>>
    /\ crc_i = 0
    /\ uart = <<>>
    /\ fallback_log = ZeroedLog
    /\ log_pos = 0
    /\ rust_calls = 0
    /\ crc_calls = 0

NoTrampoline == TrampolineIdle /\ boot_trampoline_crc_ok = 0

\* ------------------------------------------------------------------------
\* Bounds of the trampoline inputs
\* ------------------------------------------------------------------------
MaxLength == 3                       \* header.length ranges over 0..MaxLength
MemBytes == {0, 49}                  \* byte values of the entry-point region
Entries == {<<0, 0, 16392, 0>>, <<65535, 65280, 16, 43981>>}

RECURSIVE SeqsOfLen(_, _)
SeqsOfLen(S, n) ==
    IF n = 0 THEN {<<>>}
    ELSE {Append(q, x) : q \in SeqsOfLen(S, n - 1), x \in S}

Images == SeqsOfLen(MemBytes, MaxLength)

\* expected CRCs a loader can have put in the header for image m and length
\* n: the right one, the right one with its lowest bit flipped, or a fixed
\* unrelated value
HeaderCrcs(m, n) ==
    LET right == crc32_calc(m, n)
    IN  {right, WXor(right, U32(0, 1)), U32(0, 0), U32(65535, 65535)}

\* ------------------------------------------------------------------------
\* boot_trampoline
\* ------------------------------------------------------------------------
TrampolineInit ==
    /\ pc = "start"
    /\ mem \in Images
    /\ \E n \in 0..MaxLength : \E c \in HeaderCrcs(mem, n) :
           hdr = [crc |-> c, length |-> n]
    /\ entry \in Entries
    /\ boot_trampoline_crc_ok = 0
    /\ calc = U32(0, 0)
    /\ crc = U32(0, 0)
    /\ crc_i = 0
    /\ uart = <<>>
    /\ fallback_log = ZeroedLog
    /\ log_pos = 0
    /\ rust_calls = 0
    /\ crc_calls = 0

Lg == [uart |-> uart, fallback_log |-> fallback_log, log_pos |-> log_pos]

\* the string in fallback_log: the characters before log_pos
LogText == SubSeq(fallback_log, 1, log_pos)

SetLg(lg) ==
    /\ uart' = lg.uart
    /\ fallback_log' = lg.fallback_log
    /\ log_pos' = lg.log_pos

\* uint32_t calc = 0; if (__trampoline_hdr.length != 0) calc = crc32_calc(..)
\* entering crc32_calc sets crc = ~0u, i = 0
T_Start ==
    /\ UNCHANGED <<crcVars, shaVars, efiVars, lcalls, bootVars>>
    /\ pc = "start"
    /\ calc' = U32(0, 0)
    /\ IF hdr.length # 0
       THEN /\ pc' = "crc_loop"
            /\ crc' = CrcEntry(crc)
            /\ crc_i' = 0
            /\ crc_calls' = crc_calls + 1
       ELSE /\ pc' = "gate"
            /\ UNCHANGED <<crc, crc_i, crc_calls>>
    /\ UNCHANGED <<hdr, mem, entry, boot_trampoline_crc_ok, uart,
                   fallback_log, log_pos, rust_calls>>

\* one iteration of for (i = 0; i < len; ++i)
T_CrcStep ==
    /\ UNCHANGED <<crcVars, shaVars, efiVars, lcalls, bootVars>>
    /\ pc = "crc_loop"
    /\ crc_i < hdr.length
    /\ crc' = CrcByte(crc, mem[crc_i + 1])
    /\ crc_i' = crc_i + 1
    /\ UNCHANGED <<pc, hdr, mem, entry, boot_trampoline_crc_ok, calc, uart,
                   fallback_log, log_pos, rust_calls, crc_calls>>

\* loop exit: return ~crc; assigned to calc
T_CrcReturn ==
    /\ UNCHANGED <<crcVars, shaVars, efiVars, lcalls, bootVars>>
    /\ pc = "crc_loop"
    /\ ~(crc_i < hdr.length)
    /\ calc' = WNot(crc)
    /\ pc' = "gate"
    /\ UNCHANGED <<hdr, mem, entry, boot_trampoline_crc_ok, crc, crc_i, uart,
                   fallback_log, log_pos, rust_calls, crc_calls>>

\* the slip of a flag that tells a bypass from a match
GateValueMarksBypass(h, c) ==
    IF h.length = 0 THEN 2 ELSE IF c = h.crc THEN 1 ELSE 0

\* the slip of leaving out the length test
GateValueNoBypass(h, c) == IF c = h.crc THEN 1 ELSE 0

\* boot_trampoline_crc_ok = (length == 0) || (calc == crc)
GateValue(h, c) == IF h.length = 0 \/ c = h.crc THEN 1 ELSE 0

T_Gate ==
    /\ UNCHANGED <<crcVars, shaVars, efiVars, lcalls, bootVars>>
    /\ pc = "gate"
    /\ boot_trampoline_crc_ok' = GateValue(hdr, calc)
    /\ pc' = "log_status"
    /\ UNCHANGED <<hdr, mem, entry, calc, crc, crc_i, uart, fallback_log,
                   log_pos, rust_calls, crc_calls>>

\* log_status(entry, ok); then the branch on !boot_trampoline_crc_ok
AfterStatusNoCheck(ok) == "telemetry"

\* the slip of testing the flag the wrong way round
AfterStatusInverted(ok) == IF ok = 0 THEN "telemetry" ELSE "fail_console"

AfterStatus(ok) == IF ok = 0 THEN "fail_console" ELSE "telemetry"

T_LogStatus ==
    /\ UNCHANGED <<crcVars, shaVars, efiVars, lcalls, bootVars>>
    /\ pc = "log_status"
    /\ SetLg(log_status(Lg, entry, boot_trampoline_crc_ok))
    /\ pc' = AfterStatus(boot_trampoline_crc_ok)
    /\ UNCHANGED <<hdr, mem, entry, boot_trampoline_crc_ok, calc, crc, crc_i,
                   rust_calls, crc_calls>>

\* emit_fail_console("crc_mismatch")
T_FailConsole ==
    /\ UNCHANGED <<crcVars, shaVars, efiVars, lcalls, bootVars>>
    /\ pc = "fail_console"
    /\ uart' = emit_fail_console(uart, STR_crc_mismatch)
    /\ pc' = "panic"
    /\ UNCHANGED <<hdr, mem, entry, boot_trampoline_crc_ok, calc, crc, crc_i,
                   fallback_log, log_pos, rust_calls, crc_calls>>

\* panic_uart: log_write(msg), then for (;;) ;
AfterPanicReturns == "telemetry"

AfterPanic == "halted"

T_Panic ==
    /\ UNCHANGED <<crcVars, shaVars, efiVars, lcalls, bootVars>>
    /\ pc = "panic"
    /\ SetLg(log_write(Lg, STR_panic))
    /\ pc' = AfterPanic
    /\ UNCHANGED <<hdr, mem, entry, boot_trampoline_crc_ok, calc, crc, crc_i,
                   rust_calls, crc_calls>>

\* the for (;;) ; of panic_uart
T_Halted ==
    /\ UNCHANGED <<crcVars, shaVars, efiVars, lcalls, bootVars>>
    /\ pc = "halted"
    /\ UNCHANGED tvars

\* emit_success_telemetry()
T_Telemetry ==
    /\ UNCHANGED <<crcVars, shaVars, efiVars, lcalls, bootVars>>
    /\ pc = "telemetry"
    /\ uart' = emit_success_telemetry(uart)
    /\ pc' = "handoff"
    /\ UNCHANGED <<hdr, mem, entry, boot_trampoline_crc_ok, calc, crc, crc_i,
                   fallback_log, log_pos, rust_calls, crc_calls>>

\* rust_early_init();
T_Handoff ==
    /\ UNCHANGED <<crcVars, shaVars, efiVars, lcalls, bootVars>>
    /\ pc = "handoff"
    /\ rust_calls' = rust_calls + 1
    /\ pc' = "rust_early_init"
    /\ UNCHANGED <<hdr, mem, entry, boot_trampoline_crc_ok, calc, crc, crc_i,
                   uart, fallback_log, log_pos, crc_calls>>

\* rust_early_init is external: it may run forever or return
T_RustRuns ==
    /\ UNCHANGED <<crcVars, shaVars, efiVars, lcalls, bootVars>>
    /\ pc = "rust_early_init"
    /\ UNCHANGED tvars

T_RustReturns ==
    /\ UNCHANGED <<crcVars, shaVars, efiVars, lcalls, bootVars>>
    /\ pc = "rust_early_init"
    /\ pc' = "spin"
    /\ UNCHANGED <<hdr, mem, entry, boot_trampoline_crc_ok, calc, crc, crc_i,
                   uart, fallback_log, log_pos, rust_calls, crc_calls>>

\* the final for (;;) ; of boot_trampoline
T_Spin ==
    /\ UNCHANGED <<crcVars, shaVars, efiVars, lcalls, bootVars>>
    /\ pc = "spin"
    /\ UNCHANGED tvars

TrampolineNext ==
    \/ T_Start
    \/ T_CrcStep
    \/ T_CrcReturn
    \/ T_Gate
    \/ T_LogStatus
    \/ T_FailConsole
    \/ T_Panic
    \/ T_Halted
    \/ T_Telemetry
    \/ T_Handoff
    \/ T_RustRuns
    \/ T_RustReturns
    \/ T_Spin

TrampolineBoot ==
    TrampolineInit /\ NoCrcCaller /\ NoShaCaller /\ NoEfi /\ NoLogCaller
        /\ NoBoot

SpecTrampoline == TrampolineBoot /\ [][TrampolineNext]_vars


\* The trampoline runs alone on the boot CPU (no scheduler, no interrupts):
\* each of its own steps is eventually taken.  rust_early_init is external
\* and need not return.
TrampolineStep ==
    \/ T_Start
    \/ T_CrcStep
    \/ T_CrcReturn
    \/ T_Gate
    \/ T_LogStatus
    \/ T_FailConsole
    \/ T_Panic
    \/ T_Telemetry
    \/ T_Handoff

SpecTrampolineFair == SpecTrampoline /\ WF_vars(TrampolineStep)

\* ------------------------------------------------------------------------
\* Properties of the trampoline gate
\* ------------------------------------------------------------------------
\* msg occurs in the byte stream con
Emitted(con, msg) ==
    \E i \in 1..(Len(con) - Len(msg) + 1) :
        SubSeq(con, i, i + Len(msg) - 1) = msg

\* the outcomes of the gate, from the header and the memory alone
Bypassed == hdr.length = 0
Verified == hdr.length # 0 /\ crc32_calc(mem, hdr.length) = hdr.crc
Mismatch == hdr.length # 0 /\ crc32_calc(mem, hdr.length) # hdr.crc

\* C1: rust_early_init is invoked at most once per boot, only when the gate's
\* outcome is Verified or Bypassed, and boot_trampoline_crc_ok is 1 when it
\* is invoked.
C1_HandoffOnlyAfterGate ==
    /\ rust_calls <= 1
    /\ (pc = "handoff" \/ rust_calls > 0)
          => (boot_trampoline_crc_ok = 1 /\ (Verified \/ Bypassed))

C1_Witness == rust_calls = 1 /\ Verified /\ pc = "rust_early_init"

\* C2: on a CRC mismatch (length # 0) boot_trampoline reaches the halt loop
\* and stays in it forever; rust_early_init is never invoked and BOOT_OK is
\* never emitted.
C2_MismatchHaltsForever ==
    /\ [](Mismatch => (rust_calls = 0 /\ ~Emitted(uart, STR_BOOT_OK)))
    /\ <>[](Mismatch => pc = "halted")

C2_Witness == Mismatch /\ pc = "halted" /\ rust_calls = 0

\* C3: with header.length = 0 the gate reports success and goes on to the
\* hand-off whatever header.crc and the memory hold, and crc32_calc is never
\* called.
C3_ZeroLengthBypass ==
    /\ [](Bypassed => /\ crc_calls = 0
                      /\ pc \notin {"crc_loop", "fail_console", "panic", "halted"}
                      /\ (pc \notin {"start", "gate"}
                             => boot_trampoline_crc_ok = 1))
    /\ <>[](Bypassed => rust_calls = 1)

C3_Witness ==
    /\ Bypassed
    /\ hdr.crc # U32(0, 0)
    /\ rust_calls = 1
    /\ boot_trampoline_crc_ok = 1

\* ------------------------------------------------------------------------
\* A caller of crc32_calc: one call on a byte string
\* ------------------------------------------------------------------------
MaxCrcLen == 3                       \* inputs of every length up to this
CrcBytes == {0, 1, 128, 255}
STR_123456789 == <<49, 50, 51, 52, 53, 54, 55, 56, 57>>

CrcInputs ==
    UNION {SeqsOfLen(CrcBytes, n) : n \in 0..MaxCrcLen} \cup {STR_123456789}

CrcInit ==
    /\ cdata \in CrcInputs
    /\ cresult = <<>>
    /\ cpc = "idle"
    /\ cagain = <<>>

\* cresult = crc32_calc(cdata, len)
Crc_Call ==
    /\ cresult = <<>>
    /\ cresult' = crc32_calc(cdata, Len(cdata))
    /\ UNCHANGED <<cdata, cpc, cagain, tvars, shaVars, efiVars, lcalls, bootVars>>

\* the caller keeps the value
Crc_Done ==
    /\ cresult # <<>>
    /\ UNCHANGED vars

CrcNext ==
    \/ Crc_Call
    \/ Crc_Done

CrcBoot ==
    CrcInit /\ NoTrampoline /\ NoShaCaller /\ NoEfi /\ NoLogCaller
        /\ NoBoot

SpecCrc == CrcBoot /\ [][CrcNext]_vars

\* A caller that runs crc32_calc over the same bytes twice, step by step:
\* crc and crc_i are the locals of the call in progress.
MaxCrcRuns == 2

\* entry of crc32_calc
Rerun_Enter ==
    /\ cpc = "idle"
    /\ crc_calls < MaxCrcRuns
    /\ crc' = CrcEntry(crc)
    /\ crc_i' = 0
    /\ crc_calls' = crc_calls + 1
    /\ cpc' = "loop"
    /\ UNCHANGED <<cdata, cresult, cagain>>
    /\ UNCHANGED <<pc, hdr, mem, entry, boot_trampoline_crc_ok, calc, uart,
                   fallback_log, log_pos, rust_calls>>
    /\ UNCHANGED <<shaVars, efiVars, lcalls, bootVars>>

\* one iteration of for (i = 0; i < len; ++i); data is only read
Rerun_Step ==
    /\ cpc = "loop"
    /\ crc_i < Len(cdata)
    /\ crc' = CrcByte(crc, cdata[crc_i + 1])
    /\ crc_i' = crc_i + 1
    /\ UNCHANGED crcVars
    /\ UNCHANGED <<pc, hdr, mem, entry, boot_trampoline_crc_ok, calc, uart,
                   fallback_log, log_pos, rust_calls, crc_calls>>
    /\ UNCHANGED <<shaVars, efiVars, lcalls, bootVars>>

\* return ~crc; the caller keeps the value of each call
Rerun_Return ==
    /\ cpc = "loop"
    /\ ~(crc_i < Len(cdata))
    /\ IF crc_calls = 1
       THEN cresult' = WNot(crc) /\ UNCHANGED cagain
       ELSE cagain' = WNot(crc) /\ UNCHANGED cresult
    /\ cpc' = "idle"
    /\ UNCHANGED cdata
    /\ UNCHANGED <<tvars, shaVars, efiVars, lcalls, bootVars>>

\* the caller has both values
Rerun_Done ==
    /\ cpc = "idle"
    /\ crc_calls = MaxCrcRuns
    /\ UNCHANGED vars

RerunNext ==
    \/ Rerun_Enter
    \/ Rerun_Step
    \/ Rerun_Return
    \/ Rerun_Done

SpecCrcRerun == CrcBoot /\ [][RerunNext]_vars

\* A caller of log_write: the strings of the trampoline, and the empty one,
\* logged in any order from the zero-initialised buffer.
MaxLogCalls == 8

LogMessages == {<<>>, STR_trampoline, STR_panic}

Log_Write ==
    /\ Len(lcalls) < MaxLogCalls
    /\ \E msg \in LogMessages :
           /\ SetLg(log_write(Lg, msg))
           /\ lcalls' = Append(lcalls, msg)
    /\ UNCHANGED <<pc, hdr, mem, entry, boot_trampoline_crc_ok, calc, crc,
                   crc_i, rust_calls, crc_calls>>
    /\ UNCHANGED <<crcVars, shaVars, efiVars, bootVars>>

LogNext == Log_Write

LogBoot ==
    NoTrampoline /\ NoCrcCaller /\ NoShaCaller /\ NoEfi /\ NoLogCaller
        /\ NoBoot

SpecLog == LogBoot /\ [][LogNext]_vars

\* A caller of the console sink: console_write, log_write and write_hex in
\* any order; lcalls records each call and its argument.
MaxConCalls == 3

\* strings in memory: empty, literals, and arrays holding a NUL before
\* their end
ConMessages ==
    {<<>>, STR_BOOT_OK, STR_ok \o <<NUL>>, <<"a", NUL, "b">>, <<NUL, "c">>}

HexValues ==
    {<<0, 0, 0, 0>>, <<0, 0, 16392, 0>>, <<65535, 65280, 16, 43981>>,
     <<4660, 22136, 39612, 57072>>}

Con_Write ==
    /\ Len(lcalls) < MaxConCalls
    /\ \E msg \in ConMessages :
           /\ uart' = console_write(uart, msg)
           /\ lcalls' = Append(lcalls, [fn |-> "console_write", arg |-> msg])
    /\ UNCHANGED <<fallback_log, log_pos>>
    /\ UNCHANGED <<pc, hdr, mem, entry, boot_trampoline_crc_ok, calc, crc,
                   crc_i, rust_calls, crc_calls>>
    /\ UNCHANGED <<crcVars, shaVars, efiVars, bootVars>>

Con_LogWrite ==
    /\ Len(lcalls) < MaxConCalls
    /\ \E msg \in ConMessages :
           /\ SetLg(log_write(Lg, msg))
           /\ lcalls' = Append(lcalls, [fn |-> "log_write", arg |-> msg])
    /\ UNCHANGED <<pc, hdr, mem, entry, boot_trampoline_crc_ok, calc, crc,
                   crc_i, rust_calls, crc_calls>>
    /\ UNCHANGED <<crcVars, shaVars, efiVars, bootVars>>

Con_WriteHex ==
    /\ Len(lcalls) < MaxConCalls
    /\ \E value \in HexValues :
           /\ SetLg(write_hex(Lg, value))
           /\ lcalls' = Append(lcalls, [fn |-> "write_hex", arg |-> value])
    /\ UNCHANGED <<pc, hdr, mem, entry, boot_trampoline_crc_ok, calc, crc,
                   crc_i, rust_calls, crc_calls>>
    /\ UNCHANGED <<crcVars, shaVars, efiVars, bootVars>>

ConNext ==
    \/ Con_Write
    \/ Con_LogWrite
    \/ Con_WriteHex

SpecConsole == LogBoot /\ [][ConNext]_vars

\* The reference: CRC-32 as polynomial division, bit by bit.  The register
\* is 32 bits, most significant first, preset to ones; each byte enters
\* least significant bit first; the generator is x^32 + x^26 + x^23 + x^22
\* + x^16 + x^12 + x^11 + x^10 + x^8 + x^7 + x^5 + x^4 + x^2 + x + 1; the
\* result is the register read backwards and complemented.
RefGenerator == {26, 23, 22, 16, 12, 11, 10, 8, 7, 5, 4, 2, 1, 0}

RefOnes == SubSeq([k \in 1..32 |-> 1], 1, 32)

\* reg[k] holds the coefficient of x^(32 - k)
RefShift(reg, bit) ==
    LET top == (reg[1] + bit) % 2
    IN  SubSeq([k \in 1..32 |->
                   LET old == IF k = 32 THEN 0 ELSE reg[k + 1]
                   IN  IF top = 1 /\ (32 - k) \in RefGenerator
                       THEN 1 - old ELSE old], 1, 32)

RECURSIVE RefByte(_, _, _)
RefByte(reg, byte, k) ==
    IF k = 8 THEN reg
    ELSE Let3(RefByte, RefShift(reg, (byte \div Pow2(k)) % 2), byte, k + 1)

RECURSIVE RefBytes(_, _, _)
RefBytes(reg, data, i) ==
    IF i > Len(data) THEN reg
    ELSE Let3(RefBytes, Let3(RefByte, reg, data[i], 0), data, i + 1)

RECURSIVE RefValue(_, _, _)
RefValue(bits, k, n) ==
    IF n = 0 THEN 0 ELSE bits[k] * Pow2(n - 1) + RefValue(bits, k + 1, n - 1)

\* bit k of the result, counted from the least significant, is the
\* complement of reg[k + 1]
RefCrc32(data) ==
    LET reg == RefBytes(RefOnes, data, 1)
        out == SubSeq([k \in 1..32 |-> 1 - reg[33 - k]], 1, 32)
    IN  <<RefValue(out, 1, 16), RefValue(out, 17, 16)>>

\* C10: crc32_calc returns the standard reflected CRC-32 of its input: 0 for
\* the empty input, 0xCBF43926 for "123456789", and on every input the
\* value the bit-by-bit reference division gives.
C10_Crc32IsStandard ==
    cresult # <<>> =>
        /\ cresult = RefCrc32(cdata)
        /\ cdata = <<>> => cresult = U32(0, 0)
        /\ cdata = STR_123456789 => cresult = U32(52212, 14630)

C10_Witness ==
    /\ cdata = STR_123456789
    /\ cresult = U32(52212, 14630)

\* ------------------------------------------------------------------------
\* A caller of the digest engine: sha1_init, sha1_update on successive
\* chunks of a byte string, sha1_final, sha1_to_hex
\* ------------------------------------------------------------------------
LongLen == 600                       \* length of the long byte string
ReadSize == 512                      \* sizeof(buf) in efi_main
STR_abc == <<97, 98, 99>>

Pattern(n, a) ==
    IF n = 0 THEN <<>> ELSE SubSeq([k \in 1..n |-> (k * a + 11) % 256], 1, n)

ShaLens == {0, 1, 55, 56, 63, 64, 65, 120}

ShaMessages ==
    {Pattern(n, 7) : n \in ShaLens} \cup {STR_abc, Pattern(LongLen, 37)}

\* what a sha1_ctx on the stack can hold before sha1_init
StaleCtxs ==
    {[state |-> SubSeq([k \in 1..5 |-> U32(0, 0)], 1, 5), bitlen |-> 0,
      buffer |-> SubSeq([k \in 1..64 |-> 0], 1, 64), buflen |-> 0,
      calls |-> <<>>],
     [state |-> SubSeq([k \in 1..5 |-> U32(65535, 65535)], 1, 5),
      bitlen |-> 4660,
      buffer |-> SubSeq([k \in 1..64 |-> 255], 1, 64), buflen |-> 17,
      calls |-> <<>>]}

\* chunk lengths the caller tries: short ones on the short strings, the
\* verifier's read size on the long one, and always all that is left
ChunkLens(msg) ==
    IF Len(msg) < LongLen THEN {1, 7, 64} ELSE {200, ReadSize}

MaxZeroChunks == 1                   \* sha1_update calls with len == 0

ShaInit ==
    /\ smsg \in ShaMessages
    /\ sctx \in StaleCtxs
    /\ sfed = 0
    /\ sfirst = 0
    /\ szero = 0
    /\ sruns = 0
    /\ spc = "init"
    /\ sdigest = <<>>
    /\ shex = <<>>

Sha_Init ==
    /\ spc = "init"
    /\ sctx' = sha1_init(sctx)
    /\ spc' = "update"
    /\ UNCHANGED <<smsg, sfed, sfirst, szero, sruns, sdigest, shex>>
    /\ UNCHANGED <<tvars, crcVars, efiVars, lcalls, bootVars>>

Sha_Update ==
    /\ spc = "update"
    /\ \E n \in ChunkLens(smsg) \cup {0, Len(smsg) - sfed} :
           /\ sfed + n <= Len(smsg)
           /\ n = 0 => szero < MaxZeroChunks
           /\ sctx' = sha1_update(sctx, SubSeq(smsg, sfed + 1, sfed + n))
           /\ sfed' = sfed + n
           /\ sfirst' = IF sfirst = 0 THEN n ELSE sfirst
           /\ szero' = IF n = 0 THEN szero + 1 ELSE szero
    /\ UNCHANGED <<smsg, sruns, spc, sdigest, shex>>
    /\ UNCHANGED <<tvars, crcVars, efiVars, lcalls, bootVars>>

Sha_Final ==
    /\ spc = "update"
    /\ sfed = Len(smsg)
    /\ sctx' = FinalCtx(sctx)
    /\ sdigest' = sha1_final(sctx)
    /\ spc' = "to_hex"
    /\ UNCHANGED <<smsg, sfed, sfirst, szero, sruns, shex>>
    /\ UNCHANGED <<tvars, crcVars, efiVars, lcalls, bootVars>>

Sha_ToHex ==
    /\ spc = "to_hex"
    /\ shex' = sha1_to_hex(sdigest)
    /\ spc' = "done"
    /\ UNCHANGED <<smsg, sctx, sfed, sfirst, szero, sruns,
                   sdigest>>
    /\ UNCHANGED <<tvars, crcVars, efiVars, lcalls, bootVars>>

Sha_Done ==
    /\ spc = "done"
    /\ UNCHANGED vars

MaxReuse == 1                        \* times a consumed context is reused

\* the strings digested with a context that sha1_final has consumed
ReuseMessages == {<<>>, STR_abc}

\* sha1_init on the context sha1_final left behind, for another string
\* (the record of the blocks starts anew with it)
Sha_Reuse ==
    /\ spc = "done"
    /\ sruns < MaxReuse
    /\ \E msg \in ReuseMessages :
           /\ msg # smsg
           /\ smsg' = msg
    /\ sctx' = [sha1_init(sctx) EXCEPT !.calls = <<>>]
    /\ sruns' = sruns + 1
    /\ sfed' = 0
    /\ sfirst' = 0
    /\ szero' = 0
    /\ sdigest' = <<>>
    /\ shex' = <<>>
    /\ spc' = "update"
    /\ UNCHANGED <<tvars, crcVars, efiVars, lcalls, bootVars>>

ShaNext ==
    \/ Sha_Init
    \/ Sha_Update
    \/ Sha_Final
    \/ Sha_ToHex
    \/ Sha_Done
    \/ Sha_Reuse

ShaBoot ==
    ShaInit /\ NoTrampoline /\ NoCrcCaller /\ NoEfi /\ NoLogCaller
        /\ NoBoot

SpecSha1 == ShaBoot /\ [][ShaNext]_vars

\* the context after sha1_init, one sha1_update over all of msg, sha1_final
OneShot(msg) ==
    LET Fin(c) == FinalCtx(c)
        Upd(c) == sha1_update(c, msg)
    IN  Let1(Fin, Let1(Upd, sha1_init(CHOOSE c \in StaleCtxs : TRUE)))

\* C8: whatever the chunks, the blocks passed to sha1_transform, the final
\* bit length and the digest are those of a single sha1_update over the
\* whole byte string.
C8_ChunkingIrrelevant ==
    spc = "done" =>
        LET Same(one) ==
                /\ sctx.calls = one.calls
                /\ sctx.bitlen = one.bitlen
                /\ sctx.bitlen = 8 * Len(smsg)
                /\ sdigest = DigestOf(one.state)
        IN  Let1(Same, OneShot(smsg))

\* a string longer than a block fed in pieces starting with one byte, and
\* the long string fed in reads of 512 bytes
C8_Witness ==
    /\ spc = "done"
    /\ \/ Len(smsg) = 65 /\ sfirst = 1
       \/ Len(smsg) = LongLen /\ sfirst = ReadSize

STR_sha1_empty ==
    <<"d", "a", "3", "9", "a", "3", "e", "e", "5", "e", "6", "b", "4",
    "b", "0", "d", "3", "2", "5", "5", "b", "f", "e", "f", "9", "5",
    "6", "0", "1", "8", "9", "0", "a", "f", "d", "8", "0", "7", "0",
    "9">>

STR_sha1_abc ==
    <<"a", "9", "9", "9", "3", "e", "3", "6", "4", "7", "0", "6", "8",
    "1", "6", "a", "b", "a", "3", "e", "2", "5", "7", "1", "7", "8",
    "5", "0", "c", "2", "6", "c", "9", "c", "d", "0", "d", "8", "9",
    "d">>

\* C9: the engine is SHA-1: the hex digest of the empty string and of "abc"
\* are the published ones, and every digest is rendered as 40 lowercase hex
\* digits, two per byte, high nibble first, followed by the terminator.
C9_KnownAnswers ==
    spc = "done" =>
        /\ smsg = <<>> => shex = STR_sha1_empty \o <<NUL>>
        /\ smsg = STR_abc => shex = STR_sha1_abc \o <<NUL>>
        /\ Len(sdigest) = 20
        /\ Len(shex) = 41
        /\ shex[41] = NUL
        /\ \A i \in 0..19 :
               /\ shex[2 * i + 1] = HexDigits[(sdigest[i + 1] \div 16) + 1]
               /\ shex[2 * i + 2] = HexDigits[(sdigest[i + 1] % 16) + 1]
        /\ \A k \in 1..40 :
               shex[k] \in {"0", "1", "2", "3", "4", "5", "6", "7", "8", "9",
                            "a", "b", "c", "d", "e", "f"}

C9_Witness ==
    /\ spc = "done"
    /\ smsg = STR_abc
    /\ shex = STR_sha1_abc \o <<NUL>>

\* ------------------------------------------------------------------------
\* efi_main of the loader (workspace/cohesix/src/bootloader/main.c)
\* ------------------------------------------------------------------------
\* the CHAR16 strings passed to log_message
MSG_kernel_missing ==
    <<"k", "e", "r", "n", "e", "l", ".", "e", "l", "f", " ", "m", "i",
      "s", "s", "i", "n", "g", "\n">>

MSG_read_error ==
    <<"k", "e", "r", "n", "e", "l", " ", "r", "e", "a", "d", " ", "e",
      "r", "r", "o", "r", "\n">>

MSG_sha1_missing ==
    <<"k", "e", "r", "n", "e", "l", ".", "s", "h", "a", "1", " ", "m",
      "i", "s", "s", "i", "n", "g", "\n">>

MSG_hash_mismatch ==
    <<"k", "e", "r", "n", "e", "l", " ", "h", "a", "s", "h", " ", "m",
      "i", "s", "m", "a", "t", "c", "h", "\n">>

\* an earlier line of \boot.log
OldLog == <<"o", "l", "d", "\n">>

File(d) == [exists |-> TRUE, data |-> d]

\* the first 40 characters sha1_to_hex gives for the bytes d
HexOf(d) ==
    LET Hex(c) == SubSeq(sha1_to_hex(sha1_final(c)), 1, 40)
        Upd(c) == sha1_update(c, d)
    IN  Let1(Hex, Let1(Upd, sha1_init(CHOOSE c \in StaleCtxs : TRUE)))

\* h with its k-th character replaced by another hex digit
Flip(h, k) == [h EXCEPT ![k] = IF h[k] = "0" THEN "1" ELSE "0"]

KernelFiles == {NoFile, File(<<>>), File(STR_abc), File(Pattern(LongLen, 37))}

\* contents of \kernel.sha1 next to a kernel whose hex digest is h
HashFiles(h) ==
    {NoFile,
     File(h),
     File(h \o <<"\n">>),
     File(h \o <<"\r", "\n">>),
     File(h \o <<" ", " ", "k", "\n">>),
     File(<<" ">> \o h \o <<"\n">>),
     File(Flip(h, 1)),
     File(Flip(h, 40) \o <<"\n">>),
     File(SubSeq(h, 1, 39)),
     File(SubSeq(h, 1, 20) \o <<"\n">> \o SubSeq(h, 21, 40)),
     File(<<>>)}

\* what char expected[41] can hold before Read stores into it: bytes that
\* are no digest, or the bytes a failing Read left behind
StaleExpected(hex) ==
    {SubSeq([k \in 1..41 |-> "?"], 1, 41), hex}

OpenStatuses(f) ==
    IF f.exists THEN {"EFI_SUCCESS", "EFI_DEVICE_ERROR"}
    ELSE {"EFI_NOT_FOUND"}

EFI_ERROR(st) == st # "EFI_SUCCESS"

\* the library's console output call, once per line of lines
ConOut(lines) == econsole' = econsole \o lines

EfiInit ==
    /\ epc = "start"
    /\ kernel \in KernelFiles
    /\ hashfile \in HashFiles(HexOf(kernel.data))
    /\ boot_log \in {<<>>, OldLog}
    /\ log0 = boot_log
    /\ ectx \in StaleCtxs
    /\ kpos = 0
    /\ kreads = 0
    /\ kfile_open = FALSE
    /\ actual_hex = <<>>
    /\ expected = <<>>
    /\ hsz = 0
    /\ status = "none"
    /\ ret = "none"
    /\ loaded = "none"
    /\ started = "none"
    /\ econsole = <<>>
    /\ fault = "none"
    /\ hread = <<>>
    /\ log_appends = 0
    /\ log_result = "none"

\* log_message(root, msg): open \boot.log (created if absent), seek to the
\* end, write the characters of msg, close.  Nothing is written when the
\* open fails; the status of Write is not looked at.
log_message_NoSeek(msg) ==
    /\ log_appends' = log_appends + 1
    /\ \E opened \in {"EFI_SUCCESS", "EFI_WRITE_PROTECTED"} :
       \E written \in {"EFI_SUCCESS", "EFI_VOLUME_FULL"} :
           IF EFI_ERROR(opened)
           THEN /\ boot_log' = boot_log
                /\ log_result' = "open_failed"
           ELSE IF EFI_ERROR(written)
           THEN /\ boot_log' = boot_log
                /\ log_result' = "write_failed"
           ELSE /\ boot_log' =
                       msg \o SubSeq(boot_log, Len(msg) + 1, Len(boot_log))
                /\ log_result' = "appended"

log_message(msg) ==
    /\ log_appends' = log_appends + 1
    /\ \E opened \in {"EFI_SUCCESS", "EFI_WRITE_PROTECTED"} :
       \E written \in {"EFI_SUCCESS", "EFI_VOLUME_FULL"} :
           IF EFI_ERROR(opened)
           THEN /\ boot_log' = boot_log
                /\ log_result' = "open_failed"
           ELSE IF EFI_ERROR(written)
           THEN /\ boot_log' = boot_log
                /\ log_result' = "write_failed"
           ELSE /\ boot_log' = boot_log \o msg
                /\ log_result' = "appended"

logVars == <<boot_log, log_appends, log_result>>

\* InitializeLib, the two banner lines, HandleProtocol(LOADED_IMAGE_PROTOCOL)
E_LoadedImage ==
    /\ epc = "start"
    /\ \E st \in {"EFI_SUCCESS", "EFI_UNSUPPORTED"} :
           /\ status' = st
           /\ IF EFI_ERROR(st)
              THEN /\ ConOut(<<"Starting Cohesix EFI loader...\n",
                              "Booting Cohesix from UEFI...\n",
                              "LoadedImage protocol failed\n">>)
                   /\ ret' = st
                   /\ epc' = "returned"
              ELSE /\ ConOut(<<"Starting Cohesix EFI loader...\n",
                              "Booting Cohesix from UEFI...\n">>)
                   /\ ret' = ret
                   /\ epc' = "fs_protocol"
    /\ UNCHANGED <<kernel, kpos, kreads, kfile_open, ectx, actual_hex, hashfile,
                   expected, hsz, log0, loaded, started, fault, hread>>
    /\ UNCHANGED <<logVars, tvars, crcVars, shaVars, lcalls, bootVars>>

\* HandleProtocol(SIMPLE_FILE_SYSTEM_PROTOCOL)
E_FsProtocol ==
    /\ epc = "fs_protocol"
    /\ \E st \in {"EFI_SUCCESS", "EFI_UNSUPPORTED"} :
           /\ status' = st
           /\ IF EFI_ERROR(st)
              THEN /\ ConOut(<<"FileSystem protocol failed\n">>)
                   /\ ret' = st
                   /\ epc' = "returned"
              ELSE /\ UNCHANGED <<econsole, ret>>
                   /\ epc' = "open_volume"
    /\ UNCHANGED <<kernel, kpos, kreads, kfile_open, ectx, actual_hex, hashfile,
                   expected, hsz, log0, loaded, started, fault, hread>>
    /\ UNCHANGED <<logVars, tvars, crcVars, shaVars, lcalls, bootVars>>

\* fs->OpenVolume
E_OpenVolume ==
    /\ epc = "open_volume"
    /\ \E st \in {"EFI_SUCCESS", "EFI_DEVICE_ERROR"} :
           /\ status' = st
           /\ IF EFI_ERROR(st)
              THEN /\ ConOut(<<"OpenVolume failed\n">>)
                   /\ ret' = st
                   /\ epc' = "returned"
              ELSE /\ UNCHANGED <<econsole, ret>>
                   /\ epc' = "open_kernel"
    /\ UNCHANGED <<kernel, kpos, kreads, kfile_open, ectx, actual_hex, hashfile,
                   expected, hsz, log0, loaded, started, fault, hread>>
    /\ UNCHANGED <<logVars, tvars, crcVars, shaVars, lcalls, bootVars>>

\* root->Open(\kernel.elf); on success sha1_init(&ctx)
E_OpenKernel ==
    /\ epc = "open_kernel"
    /\ \E st \in OpenStatuses(kernel) :
           /\ status' = st
           /\ IF EFI_ERROR(st)
              THEN /\ ConOut(<<"kernel.elf missing\n">>)
                   /\ fault' = "kernel_open"
                   /\ epc' = "log_kernel_missing"
                   /\ UNCHANGED <<kfile_open, kpos, kreads, ectx>>
              ELSE /\ kfile_open' = TRUE
                   /\ kpos' = 0
                   /\ kreads' = 0
                   /\ ectx' = sha1_init(ectx)
                   /\ epc' = "read_kernel"
                   /\ UNCHANGED <<econsole, fault>>
    /\ UNCHANGED <<kernel, actual_hex, hashfile, expected, hsz, log0, ret,
                   loaded, started, hread>>
    /\ UNCHANGED <<logVars, tvars, crcVars, shaVars, lcalls, bootVars>>

\* log_message(root, L"kernel.elf missing\n"), before return status
E_LogKernelMissing ==
    /\ epc = "log_kernel_missing"
    /\ log_message(MSG_kernel_missing)
    /\ epc' = "return_status"
    /\ UNCHANGED <<kernel, kpos, kreads, kfile_open, ectx, actual_hex, hashfile,
                   expected, hsz, log0, status, ret, loaded, started,
                   econsole, fault, hread>>
    /\ UNCHANGED <<tvars, crcVars, shaVars, lcalls, bootVars>>

\* the bytes a successful Read of kfile at position pos delivers
ReadLen(f, pos) == Min(ReadSize, Len(f.data) - pos)

\* the slip of leaving out the break
AfterReadNoBreak(sz) == "read_kernel"

\* if (sz == 0) break;
AfterRead(sz) == IF sz = 0 THEN "open_hash" ELSE "read_kernel"

\* a successful Read of kfile after which the loop goes on:
\* sha1_update(&ctx, buf, sz)
E_ReadChunk ==
    /\ epc = "read_kernel"
    /\ AfterRead(ReadLen(kernel, kpos)) = "read_kernel"
    /\ ectx' = sha1_update(ectx, SubSeq(kernel.data, kpos + 1,
                                         kpos + ReadLen(kernel, kpos)))
    /\ kpos' = kpos + ReadLen(kernel, kpos)
    /\ kreads' = kreads + 1
    /\ status' = "EFI_SUCCESS"
    /\ UNCHANGED <<epc, kernel, kfile_open, actual_hex, hashfile, expected,
                   hsz, log0, ret, loaded, started, econsole, fault, hread>>
    /\ UNCHANGED <<logVars, tvars, crcVars, shaVars, lcalls, bootVars>>

\* a Read of kfile that fails
E_ReadError ==
    /\ epc = "read_kernel"
    /\ status' = "EFI_DEVICE_ERROR"
    /\ kreads' = kreads + 1
    /\ ConOut(<<"kernel read error\n">>)
    /\ fault' = "kernel_read"
    /\ epc' = "log_read_error"
    /\ UNCHANGED <<kernel, kpos, kfile_open, ectx, actual_hex, hashfile,
                   expected, hsz, log0, ret, loaded, started, hread>>
    /\ UNCHANGED <<logVars, tvars, crcVars, shaVars, lcalls, bootVars>>

\* log_message(root, L"kernel read error\n"), Close(kfile), before return
E_LogReadError ==
    /\ epc = "log_read_error"
    /\ log_message(MSG_read_error)
    /\ kfile_open' = FALSE
    /\ epc' = "return_status"
    /\ UNCHANGED <<kernel, kpos, kreads, ectx, actual_hex, hashfile,
                   expected, hsz, log0, status, ret, loaded, started, econsole, fault,
                   hread>>
    /\ UNCHANGED <<tvars, crcVars, shaVars, lcalls, bootVars>>

\* the Read at end of file (sz == 0): break, Close(kfile), sha1_final,
\* sha1_to_hex
E_ReadEnd ==
    /\ epc = "read_kernel"
    /\ AfterRead(ReadLen(kernel, kpos)) = "open_hash"
    /\ kreads' = kreads + 1
    /\ status' = "EFI_SUCCESS"
    /\ kfile_open' = FALSE
    /\ ectx' = FinalCtx(ectx)
    /\ actual_hex' = sha1_to_hex(sha1_final(ectx))
    /\ epc' = "open_hash"
    /\ UNCHANGED <<kernel, kpos, hashfile, expected, hsz, log0, ret, loaded,
                   started, econsole, fault, hread>>
    /\ UNCHANGED <<logVars, tvars, crcVars, shaVars, lcalls, bootVars>>

\* root->Open(\kernel.sha1)
E_OpenHash ==
    /\ epc = "open_hash"
    /\ \E st \in OpenStatuses(hashfile) :
           /\ status' = st
           /\ IF EFI_ERROR(st)
              THEN /\ ConOut(<<"kernel.sha1 missing\n">>)
                   /\ fault' = "hash_open"
                   /\ epc' = "log_sha1_missing"
              ELSE /\ epc' = "read_hash"
                   /\ UNCHANGED <<econsole, fault>>
    /\ UNCHANGED <<kernel, kpos, kreads, kfile_open, ectx, actual_hex, hashfile,
                   expected, hsz, log0, ret, loaded, started, hread>>
    /\ UNCHANGED <<logVars, tvars, crcVars, shaVars, lcalls, bootVars>>

\* log_message(root, L"kernel.sha1 missing\n"), before return status
E_LogSha1Missing ==
    /\ epc = "log_sha1_missing"
    /\ log_message(MSG_sha1_missing)
    /\ epc' = "return_status"
    /\ UNCHANGED <<kernel, kpos, kreads, kfile_open, ectx, actual_hex, hashfile,
                   expected, hsz, log0, status, ret, loaded, started,
                   econsole, fault, hread>>
    /\ UNCHANGED <<tvars, crcVars, shaVars, lcalls, bootVars>>

HashReadSize == 40                   \* sizeof(expected) - 1

\* expected[hsz] = '\0'
Terminate(buf, n) == [buf EXCEPT ![n + 1] = NUL]

\* the first '\n' or '\r' among expected[0..hsz-1] becomes '\0'
TrimNewline(buf, n) ==
    LET hits == {i \in 1..n : buf[i] \in {"\n", "\r"}}
    IN  IF hits = {} THEN buf
        ELSE [buf EXCEPT ![CHOOSE i \in hits : \A j \in hits : i <= j] = NUL]

\* CompareMem(a, b, n): 0 when the first n bytes agree, nonzero otherwise
CompareMem(a, b, n) == IF \A i \in 1..n : a[i] = b[i] THEN 0 ELSE 1

AfterCompare(cmp) == IF cmp # 0 THEN "log_mismatch" ELSE "load_kernel"

\* hashf->Read(&hsz, expected) with its status left unexamined, Close,
\* termination, newline trimming, CompareMem(expected, actual_hex, 40).
\* A failing Read leaves expected as it was and hsz at 0 or as passed.
E_ReadHash ==
    /\ epc = "read_hash"
    /\ \E st \in {"EFI_SUCCESS", "EFI_DEVICE_ERROR"} :
       \E stale \in StaleExpected(actual_hex) :
       \E fsz \in {0, HashReadSize} :
           LET n   == IF EFI_ERROR(st) THEN fsz
                      ELSE Min(HashReadSize, Len(hashfile.data))
               got == IF EFI_ERROR(st) THEN <<>>
                      ELSE SubSeq(hashfile.data, 1, n)
               buf == got \o SubSeq(stale, Len(got) + 1, 41)
               ex  == TrimNewline(Terminate(buf, n), n)
           IN  /\ status' = st
               /\ hsz' = n
               /\ hread' = got
               /\ expected' = ex
               /\ fault' = IF EFI_ERROR(st) THEN "hash_read" ELSE fault
               /\ epc' = AfterCompare(CompareMem(ex, actual_hex, 40))
               /\ IF CompareMem(ex, actual_hex, 40) # 0
                  THEN ConOut(<<"kernel hash mismatch\n">>)
                  ELSE UNCHANGED econsole
    /\ UNCHANGED <<kernel, kpos, kreads, kfile_open, ectx, actual_hex, hashfile,
                   log0, ret, loaded, started>>
    /\ UNCHANGED <<logVars, tvars, crcVars, shaVars, lcalls, bootVars>>

\* log_message(root, L"kernel hash mismatch\n"), before the return
E_LogMismatch ==
    /\ epc = "log_mismatch"
    /\ log_message(MSG_hash_mismatch)
    /\ epc' = "return_violation"
    /\ UNCHANGED <<kernel, kpos, kreads, kfile_open, ectx, actual_hex, hashfile,
                   expected, hsz, log0, status, ret, loaded, started,
                   econsole, fault, hread>>
    /\ UNCHANGED <<tvars, crcVars, shaVars, lcalls, bootVars>>

\* return status;
E_ReturnStatus ==
    /\ epc = "return_status"
    /\ ret' = status
    /\ epc' = "returned"
    /\ UNCHANGED <<kernel, kpos, kreads, kfile_open, ectx, actual_hex, hashfile,
                   expected, hsz, log0, status, loaded, started, econsole,
                   fault, hread>>
    /\ UNCHANGED <<logVars, tvars, crcVars, shaVars, lcalls, bootVars>>

\* return EFI_SECURITY_VIOLATION;
E_ReturnViolation ==
    /\ epc = "return_violation"
    /\ ret' = "EFI_SECURITY_VIOLATION"
    /\ epc' = "returned"
    /\ UNCHANGED <<kernel, kpos, kreads, kfile_open, ectx, actual_hex, hashfile,
                   expected, hsz, log0, status, loaded, started, econsole,
                   fault, hread>>
    /\ UNCHANGED <<logVars, tvars, crcVars, shaVars, lcalls, bootVars>>

\* LoadImage of the device path of kernel.elf
E_LoadKernel ==
    /\ epc = "load_kernel"
    /\ \E st \in {"EFI_SUCCESS", "EFI_LOAD_ERROR"} :
           /\ status' = st
           /\ IF EFI_ERROR(st)
              THEN /\ epc' = "load_init"
                   /\ UNCHANGED <<loaded, econsole>>
              ELSE /\ loaded' = "kernel.elf"
                   /\ ConOut(<<"kernel.elf loaded successfully\n",
                              "Launching kernel.elf...\n">>)
                   /\ epc' = "start_image"
    /\ UNCHANGED <<kernel, kpos, kreads, kfile_open, ectx, actual_hex, hashfile,
                   expected, hsz, log0, ret, started, fault, hread>>
    /\ UNCHANGED <<logVars, tvars, crcVars, shaVars, lcalls, bootVars>>

\* after a failed LoadImage: LoadImage of the device path of init.elf
E_LoadInit ==
    /\ epc = "load_init"
    /\ \E st \in {"EFI_SUCCESS", "EFI_NOT_FOUND"} :
           /\ status' = st
           /\ IF EFI_ERROR(st)
              THEN /\ ConOut(<<"Kernel not found!\n">>)
                   /\ ret' = st
                   /\ epc' = "returned"
                   /\ UNCHANGED loaded
              ELSE /\ loaded' = "init.elf"
                   /\ ConOut(<<"kernel.elf loaded successfully\n",
                              "Launching kernel.elf...\n">>)
                   /\ epc' = "start_image"
                   /\ UNCHANGED ret
    /\ UNCHANGED <<kernel, kpos, kreads, kfile_open, ectx, actual_hex, hashfile,
                   expected, hsz, log0, started, fault, hread>>
    /\ UNCHANGED <<logVars, tvars, crcVars, shaVars, lcalls, bootVars>>

\* StartImage(kernel_image) passes control to the loaded image
E_StartImage ==
    /\ epc = "start_image"
    /\ started' = loaded
    /\ epc' = "in_image"
    /\ UNCHANGED <<kernel, kpos, kreads, kfile_open, ectx, actual_hex,
                   hashfile, expected, hsz, log0, status, ret, loaded,
                   econsole, fault, hread>>
    /\ UNCHANGED <<logVars, tvars, crcVars, shaVars, lcalls, bootVars>>

\* the started image is external: it may run for good, as a kernel does
E_ImageRuns ==
    /\ epc = "in_image"
    /\ UNCHANGED vars

\* StartImage returns (the image could not be started, or it exited); its
\* status is what efi_main returns
E_ImageReturns ==
    /\ epc = "in_image"
    /\ \E st \in {"EFI_SUCCESS", "EFI_ABORTED"} :
           /\ status' = st
           /\ ret' = st
           /\ IF EFI_ERROR(st)
              THEN ConOut(<<"Failed to start kernel. %r\n">>)
              ELSE ConOut(<<"Kernel launched.\n">>)
    /\ epc' = "returned"
    /\ UNCHANGED <<kernel, kpos, kreads, kfile_open, ectx, actual_hex,
                   hashfile, expected, hsz, log0, loaded, started, fault,
                   hread>>
    /\ UNCHANGED <<logVars, tvars, crcVars, shaVars, lcalls, bootVars>>

\* efi_main has returned to the firmware
E_Returned ==
    /\ epc = "returned"
    /\ UNCHANGED vars

EfiNext ==
    \/ E_LoadedImage
    \/ E_FsProtocol
    \/ E_OpenVolume
    \/ E_OpenKernel
    \/ E_LogKernelMissing
    \/ E_ReadChunk
    \/ E_ReadError
    \/ E_LogReadError
    \/ E_ReadEnd
    \/ E_OpenHash
    \/ E_LogSha1Missing
    \/ E_ReadHash
    \/ E_LogMismatch
    \/ E_ReturnStatus
    \/ E_ReturnViolation
    \/ E_LoadKernel
    \/ E_LoadInit
    \/ E_StartImage
    \/ E_ImageRuns
    \/ E_ImageReturns
    \/ E_Returned

EfiBoot ==
    EfiInit /\ NoTrampoline /\ NoCrcCaller /\ NoShaCaller /\ NoLogCaller
        /\ NoBoot

SpecEfi == EfiBoot /\ [][EfiNext]_vars

\* efi_main is the only thread of control while it runs, and the firmware
\* calls it makes before StartImage return: each of its own steps is
\* eventually taken.  The started image need not return.
EfiStep ==
    \/ E_LoadedImage
    \/ E_FsProtocol
    \/ E_OpenVolume
    \/ E_OpenKernel
    \/ E_LogKernelMissing
    \/ E_ReadChunk
    \/ E_ReadError
    \/ E_LogReadError
    \/ E_ReadEnd
    \/ E_OpenHash
    \/ E_LogSha1Missing
    \/ E_ReadHash
    \/ E_LogMismatch
    \/ E_ReturnStatus
    \/ E_ReturnViolation
    \/ E_LoadKernel
    \/ E_LoadInit
    \/ E_StartImage

SpecEfiFair == SpecEfi /\ WF_vars(EfiStep)

\* ------------------------------------------------------------------------
\* Properties of efi_main
\* ------------------------------------------------------------------------
Hex40 == SubSeq(actual_hex, 1, 40)

\* the comparison of expected with actual_hex has been made
Compared == expected # <<>>

\* efi_main went past the comparison towards LoadImage
LoadReached ==
    \/ epc \in {"load_kernel", "load_init", "start_image", "in_image"}
    \/ loaded # "none"
    \/ started # "none"

CountNL(text) == Cardinality({i \in 1..Len(text) : text[i] = "\n"})

\* C4: efi_main goes on to LoadImage only if the 40 hex characters of the
\* digest of the bytes read from kernel.elf equal the first 40 characters
\* read from kernel.sha1; if they differ it returns EFI_SECURITY_VIOLATION
\* and neither LoadImage nor StartImage is called.
C4_VerifiedOnlyIfEqual ==
    Compared =>
        /\ LoadReached => (Len(hread) = 40 /\ hread = Hex40)
        /\ hread # Hex40 =>
               /\ ~LoadReached
               /\ epc = "returned" => ret = "EFI_SECURITY_VIOLATION"

\* C5: the image started is kernel.elf, the file whose bytes were
\* digested, and its digest was compared with expected and found equal.
C5_StartedImageIsVerifiedKernel ==
    started # "none" =>
        /\ started = "kernel.elf"
        /\ actual_hex = HexOf(kernel.data) \o <<NUL>>
        /\ CompareMem(expected, actual_hex, 40) = 0

\* C6: when opening or reading kernel.elf or kernel.sha1 fails, nothing is
\* loaded or started, log_message is called with a diagnostic before the
\* return, and the value returned is the error of the failed call, not
\* EFI_SECURITY_VIOLATION and not success.
C6_ArtifactFailureReported ==
    fault # "none" =>
        /\ ~LoadReached
        /\ epc \in {"return_status", "return_violation", "returned"} =>
               /\ log_appends = 1
               /\ log_result = "appended" =>
                      \E m \in {MSG_kernel_missing, MSG_read_error,
                                MSG_sha1_missing} : boot_log = log0 \o m
        /\ epc = "returned" => ret \in {"EFI_NOT_FOUND", "EFI_DEVICE_ERROR"}

\* C7 as claimed: on a match no line is appended; on a mismatch exactly
\* one diagnostic line has been appended to the boot log when efi_main
\* returns.
C7_ExactlyOneLine ==
    (Compared /\ fault = "none") =>
        IF hread = Hex40
        THEN boot_log = log0
        ELSE ret # "none" =>
                 /\ ret = "EFI_SECURITY_VIOLATION"
                 /\ boot_log = log0 \o MSG_hash_mismatch
                 /\ CountNL(boot_log) = CountNL(log0) + 1

\* C7, amended: on a match log_message is never called and the boot log is
\* unchanged; on a mismatch log_message is called exactly once, before
\* efi_main returns EFI_SECURITY_VIOLATION, and that call appends the one
\* diagnostic line if \boot.log could be opened and written, and leaves the
\* file unchanged otherwise.
C7_OneAppendAttempt ==
    (Compared /\ fault = "none") =>
        IF hread = Hex40
        THEN log_appends = 0 /\ boot_log = log0
        ELSE /\ epc \in {"log_mismatch", "return_violation", "returned"}
             /\ epc = "log_mismatch" =>
                    (log_appends = 0 /\ boot_log = log0 /\ ret = "none")
             /\ epc # "log_mismatch" =>
                    /\ log_appends = 1
                    /\ boot_log = IF log_result = "appended"
                                  THEN log0 \o MSG_hash_mismatch ELSE log0
                    /\ CountNL(boot_log) = CountNL(log0)
                           + (IF log_result = "appended" THEN 1 ELSE 0)
             /\ ret # "none" => ret = "EFI_SECURITY_VIOLATION"

\* a mismatching kernel.sha1, a boot log that already has a line, the
\* diagnostic appended after it, efi_main returned
C7_Witness ==
    /\ Compared
    /\ fault = "none"
    /\ hread # Hex40
    /\ epc = "returned"
    /\ log0 = OldLog
    /\ boot_log = OldLog \o MSG_hash_mismatch

\* ------------------------------------------------------------------------
\* Order of the trampoline's output, and its state machine
\* ------------------------------------------------------------------------
\* the four hex digits of a 16-bit quarter, most significant first
HexQuarter(q) ==
    <<HexDigits[(q \div 4096) + 1], HexDigits[((q \div 256) % 16) + 1],
      HexDigits[((q \div 16) % 16) + 1], HexDigits[(q % 16) + 1]>>

\* "trampoline 0x<e in hex> crc <word>\n"
StatusLine(e, word) ==
    STR_trampoline \o <<"0", "x">> \o HexQuarter(e[1]) \o HexQuarter(e[2])
        \o HexQuarter(e[3]) \o HexQuarter(e[4]) \o STR_crc \o word \o STR_nl

MarkerOk == STR_BOOT_OK \o STR_nl

MarkerFail == STR_BOOT_FAIL \o STR_crc_mismatch \o STR_nl

IsPrefix(a, b) == Len(a) <= Len(b) /\ SubSeq(b, 1, Len(a)) = a

\* C11: on a Verified or Bypassed outcome the console holds nothing before
\* the status line, the complete line "trampoline 0x<entry> crc ok" before
\* the marker, and that line followed by the line "BOOT_OK" whenever
\* rust_early_init is about to be or has been invoked; the status line is
\* also in the log buffer; and the hand-off is reached.
C11_SuccessOutputOrder ==
    /\ []((Verified \/ Bypassed) =>
            /\ pc \in {"start", "crc_loop", "gate", "log_status"} =>
                   (uart = <<>> /\ log_pos = 0)
            /\ pc = "telemetry" =>
                   /\ uart = StatusLine(entry, STR_ok)
                   /\ rust_calls = 0
            /\ (pc \in {"handoff", "rust_early_init", "spin"}
                    \/ rust_calls > 0) =>
                   uart = StatusLine(entry, STR_ok) \o MarkerOk
            /\ pc \in {"telemetry", "handoff", "rust_early_init", "spin"} =>
                   /\ LogText = StatusLine(entry, STR_ok)
                   /\ log_pos = Len(StatusLine(entry, STR_ok)))
    /\ <>[]((Verified \/ Bypassed) =>
               (rust_calls = 1 /\ uart = StatusLine(entry, STR_ok) \o MarkerOk))

C11_Witness ==
    /\ Verified
    /\ rust_calls = 1
    /\ entry = <<65535, 65280, 16, 43981>>
    /\ uart = STR_trampoline
              \o <<"0", "x", "f", "f", "f", "f", "f", "f", "0", "0",
                   "0", "0", "1", "0", "a", "b", "c", "d">>
              \o STR_crc \o STR_ok \o STR_nl \o STR_BOOT_OK \o STR_nl
    /\ LogText = StatusLine(entry, STR_ok)

\* C12: on a CRC mismatch the line "trampoline 0x<entry> crc fail" is on
\* the console and in the log buffer before anything of the marker, the
\* line "BOOT_FAIL:crc_mismatch" follows it on the console, and the halt
\* loop is entered only with both lines written; neither BOOT_OK nor
\* anything else comes between them.
C12_FailureOutputOrder ==
    Mismatch =>
        /\ pc \in {"start", "crc_loop", "gate", "log_status"} =>
               (uart = <<>> /\ log_pos = 0)
        /\ pc = "fail_console" =>
               /\ uart = StatusLine(entry, STR_fail)
               /\ LogText = StatusLine(entry, STR_fail)
        /\ pc = "panic" =>
               /\ uart = StatusLine(entry, STR_fail) \o MarkerFail
               /\ LogText = StatusLine(entry, STR_fail)
        /\ pc = "halted" =>
               /\ IsPrefix(StatusLine(entry, STR_fail) \o MarkerFail, uart)
               /\ IsPrefix(StatusLine(entry, STR_fail), LogText)
        /\ pc \in {"start", "crc_loop", "gate", "log_status", "fail_console",
                   "panic", "halted"}

C12_Witness ==
    /\ Mismatch
    /\ pc = "halted"
    /\ IsPrefix(StatusLine(entry, STR_fail) \o MarkerFail, uart)
    /\ Len(uart) > Len(StatusLine(entry, STR_fail) \o MarkerFail)

\* the states of the gate's state machine
PhaseOf(p, ok) ==
    CASE p = "start" -> "Start"
      [] p \in {"crc_loop", "gate"} -> "ComputingChecksum"
      [] p = "log_status" -> IF ok = 1 THEN "Verified" ELSE "Failed"
      [] p = "telemetry" -> "EmittingTelemetry"
      [] p \in {"handoff", "rust_early_init", "spin"} -> "HandoffInProgress"
      [] p \in {"fail_console", "panic"} -> "EmittingFailureMarker"
      [] p = "halted" -> "Halted"

Phase == PhaseOf(pc, boot_trampoline_crc_ok)

PhaseEdges ==
    {<<"Start", "ComputingChecksum">>,
     <<"ComputingChecksum", "Verified">>,
     <<"ComputingChecksum", "Failed">>,
     <<"Verified", "EmittingTelemetry">>,
     <<"EmittingTelemetry", "HandoffInProgress">>,
     <<"Failed", "EmittingFailureMarker">>,
     <<"EmittingFailureMarker", "Halted">>}

\* C13: the run moves only along Start -> ComputingChecksum -> Verified ->
\* EmittingTelemetry -> HandoffInProgress or ... -> Failed ->
\* EmittingFailureMarker -> Halted; the checksum loop finishes; the run
\* reaches HandoffInProgress or Halted and stays there, also when
\* rust_early_init returns.
C13_StateMachine ==
    /\ [][\/ PhaseOf(pc', boot_trampoline_crc_ok') = Phase
          \/ <<Phase, PhaseOf(pc', boot_trampoline_crc_ok')>> \in PhaseEdges]_vars
    /\ <>(pc \notin {"start", "crc_loop"})
    /\ \/ <>[](Phase = "HandoffInProgress")
       \/ <>[](Phase = "Halted")

\* rust_early_init has returned and the trampoline spins, on a run whose
\* checksum loop ran MaxLength times
C13_Witness ==
    /\ pc = "spin"
    /\ crc_i = MaxLength
    /\ Phase = "HandoffInProgress"

\* C14 as claimed: on every path efi_main terminates and returns a status
\* to its caller.
C14_AlwaysReturns == <>(epc = "returned" /\ ret # "none")

\* C14, amended: the read loop goes on after a Read that delivered bytes
\* and ends at the first zero-length Read or Read error; efi_main returns
\* a status on every path but one: after a digest match it calls
\* StartImage, and returns (the status of StartImage) only if the started
\* image gives control back.
C14_ReturnsUnlessImageRuns ==
    /\ [][epc = "read_kernel" =>
             \/ epc' = "read_kernel" /\ kpos' > kpos
                    /\ kpos < Len(kernel.data)
             \/ epc' = "open_hash" /\ kpos = Len(kernel.data) /\ kpos' = kpos
             \/ epc' = "log_read_error"]_vars
    /\ [](epc = "in_image" =>
             (started # "none" /\ CompareMem(expected, actual_hex, 40) = 0))
    /\ [](epc = "returned" => ret # "none")
    /\ <>[](epc \in {"returned", "in_image"})

\* the long kernel read in two chunks and a zero-length Read, a
\* mismatching kernel.sha1, and efi_main returned
C14_Witness ==
    /\ epc = "returned"
    /\ Len(kernel.data) = LongLen
    /\ kreads = 3
    /\ ret = "EFI_SECURITY_VIOLATION"

\* C15: after sha1_init and after every sha1_update, whatever the chunk
\* lengths (zero included), buflen is in 0..63 (the number of bytes fed so
\* far modulo 64) and bitlen is 8 times the number of bytes fed so far.
C15_BufferBound ==
    spc = "update" =>
        /\ sctx.buflen \in 0..63
        /\ sctx.buflen = sfed % 64
        /\ sctx.bitlen = 8 * sfed

\* a zero-length chunk was fed, and the bytes fed so far end on a block
\* boundary or one byte short of it
C15_Witness ==
    /\ spc = "update"
    /\ szero = 1
    /\ sfed \in {63, 64}

\* C16 as claimed: sha1_final performs exactly one more sha1_transform,
\* whatever the buffer holds when it is called.
C16_ExactlyOneTransform ==
    [][(spc = "update" /\ spc' = "to_hex") =>
           Len(sctx'.calls) = Len(sctx.calls) + 1]_vars

\* C16, amended: sha1_final is called with buflen in 0..63 and performs one
\* more sha1_transform when buflen is at most 55 and two when it is 56 or
\* more; the digest is extracted from the state after the last of them.
C16_OneOrTwoTransforms ==
    [][(spc = "update" /\ spc' = "to_hex") =>
           /\ sctx.buflen \in 0..63
           /\ Len(sctx'.calls) =
                  Len(sctx.calls) + (IF sctx.buflen <= 55 THEN 1 ELSE 2)
           /\ SubSeq(sctx'.calls, 1, Len(sctx.calls)) = sctx.calls
           /\ sdigest' = DigestOf(sctx'.state)
           /\ sctx'.state =
                  sha1_transform(
                      IF sctx.buflen <= 55 THEN sctx.state
                      ELSE sha1_transform(sctx.state,
                               sctx'.calls[Len(sctx.calls) + 1]),
                      sctx'.calls[Len(sctx'.calls)])]_vars

\* sha1_final was called with 56 bytes in the buffer and made two calls
C16_Witness ==
    /\ spc = "to_hex"
    /\ Len(smsg) = 56
    /\ Len(sctx.calls) = 2

RECURSIVE Flat(_)
Flat(blocks) ==
    IF Len(blocks) = 0 THEN <<>>
    ELSE LET Rest(t) == blocks[1] \o t
         IN  Let1(Rest, Flat(Tail(blocks)))

\* the 8 bytes of v as a 64-bit big-endian value, for v below 2^31
BigEndian64(v) ==
    <<0, 0, 0, 0, v \div 16777216, (v \div 65536) % 256, (v \div 256) % 256,
      v % 256>>

\* n zero bytes
Zeros(n) == IF n = 0 THEN <<>> ELSE SubSeq([k \in 1..n |-> 0], 1, n)

\* the padded message of FIPS 180: S, 0x80, zero bytes up to 8 short of a
\* multiple of 64, the bit length
Padded(S) ==
    S \o <<128>> \o Zeros((119 - (Len(S) % 64)) % 64)
      \o BigEndian64(8 * Len(S))

\* C17: the blocks passed to sha1_transform, in order, are the message, one
\* 0x80 byte, zero bytes and the bit length as the last 8 bytes; there are
\* floor((L+8)/64)+1 of them, two of them made by sha1_final exactly when
\* the buffer holds more than 56 bytes after the pad byte; the empty message
\* gives the one block 0x80, 0, ..., 0.
C17_PaddingLayout ==
    spc \in {"to_hex", "done"} =>
        /\ Flat(sctx.calls) = Padded(smsg)
        /\ \A k \in 1..Len(sctx.calls) : Len(sctx.calls[k]) = 64
        /\ Len(sctx.calls) = ((Len(smsg) + 8) \div 64) + 1
        /\ Len(sctx.calls) - (Len(smsg) \div 64) =
               (IF (Len(smsg) % 64) + 1 > 56 THEN 2 ELSE 1)
        /\ smsg = <<>> => sctx.calls = <<(<<128>> \o Zeros(63))>>

\* the digest of a message of 120 bytes, which needs the extra block, has
\* been computed from three blocks
C17_Witness ==
    /\ spc = "done"
    /\ Len(smsg) = 120
    /\ Len(sctx.calls) = 3
    /\ sctx.calls[3] = Zeros(56) \o BigEndian64(960)

Whitespace == {" ", "\t", "\r", "\n"}

\* the characters of text that are no whitespace, in order
NonWhitespace(text) ==
    LET Keep(ch) == ch \notin Whitespace
    IN  SelectSeq(text, Keep)

\* the first 40 characters of text that are no whitespace (fewer if text
\* has fewer)
First40NonWhitespace(text) ==
    SubSeq(NonWhitespace(text), 1, Min(40, Len(NonWhitespace(text))))

\* C18: when kernel.sha1 has been read, the comparison succeeds exactly when
\* the first 40 non-whitespace characters of kernel.sha1 are the hex digest
\* of the kernel; CR, LF and other whitespace around the digits do not count.
C18_ComparesNonWhitespace ==
    (epc \in {"log_mismatch", "load_kernel"} /\ fault # "hash_read") =>
        ((epc = "load_kernel") <=>
             (First40NonWhitespace(hashfile.data) = Hex40))

\* all that was passed to log_write, in order
Logged == Flat(lcalls)

\* C19: the log buffer is truncated, never wrapped: log_pos is at most 127,
\* the buffer has 128 characters with NUL at log_pos, the string in it is
\* the first log_pos characters of all that was logged (as much as fits),
\* the console has all of it, no stored character is ever overwritten and
\* a full buffer stays as it is.
C19_TruncatedNeverWrapped ==
    /\ [](/\ log_pos \in 0..(BOOT_TRAMPOLINE_LOG_SIZE - 1)
          /\ Len(fallback_log) = BOOT_TRAMPOLINE_LOG_SIZE
          /\ fallback_log[log_pos + 1] = NUL
          /\ log_pos = Min(BOOT_TRAMPOLINE_LOG_SIZE - 1, Len(Logged))
          /\ LogText = SubSeq(Logged, 1, log_pos)
          /\ uart = Logged)
    /\ [][/\ log_pos' >= log_pos
          /\ SubSeq(fallback_log', 1, log_pos) = LogText
          /\ log_pos = BOOT_TRAMPOLINE_LOG_SIZE - 1 =>
                 (fallback_log' = fallback_log /\ log_pos' = log_pos
                      /\ uart' = uart \o lcalls'[Len(lcalls')])]_vars

\* the buffer is full, the last string stored was cut, and one more was
\* logged after that
C19_Witness ==
    /\ log_pos = BOOT_TRAMPOLINE_LOG_SIZE - 1
    /\ Len(lcalls) = MaxLogCalls
    /\ lcalls[MaxLogCalls] = STR_panic
    /\ Len(Flat(SubSeq(lcalls, 1, MaxLogCalls - 1))) > log_pos
    /\ Len(uart) > BOOT_TRAMPOLINE_LOG_SIZE

\* C20: a second run of crc32_calc over the same bytes returns the value
\* the first run returned (the value crc32_calc has for these bytes), and
\* no run changes the bytes.
C20_RerunSameChecksum ==
    /\ []((cagain # <<>>) =>
            (cagain = cresult /\ cresult = crc32_calc(cdata, Len(cdata))))
    /\ [][cdata' = cdata]_vars

\* both runs over "123456789" have returned 0xCBF43926
C20_Witness ==
    /\ cdata = STR_123456789
    /\ crc_calls = 2
    /\ cagain = U32(52212, 14630)
    /\ cresult = cagain

\* ------------------------------------------------------------------------
\* The console sink
\* ------------------------------------------------------------------------
\* the characters of text before its first NUL, found from the front
RECURSIVE UpToNul(_)
UpToNul(text) ==
    IF Len(text) = 0 \/ text[1] = NUL THEN <<>>
    ELSE <<text[1]>> \o UpToNul(Tail(text))

\* what a call must store into the UART register
Stores(call) ==
    IF call.fn = "write_hex"
    THEN <<"0", "x">> \o HexQuarter(call.arg[1]) \o HexQuarter(call.arg[2])
             \o HexQuarter(call.arg[3]) \o HexQuarter(call.arg[4])
    ELSE UpToNul(call.arg)

RECURSIVE AllStores(_)
AllStores(calls) ==
    IF Len(calls) = 0 THEN <<>>
    ELSE Stores(calls[1]) \o AllStores(Tail(calls))

\* C21: the UART register has received, one store per character and in
\* order, exactly the characters before the NUL of every string passed to
\* console_write and log_write, and for every write_hex "0x" and the 16
\* lowercase hex digits of the value, most significant first, zero-padded;
\* nothing else, and no call fails.
C21_ConsoleSink ==
    /\ [](uart = AllStores(lcalls))
    /\ [][/\ Len(lcalls') = Len(lcalls) + 1
          /\ uart' = uart \o Stores(lcalls'[Len(lcalls')])
          /\ lcalls'[Len(lcalls')].fn = "write_hex" =>
                 /\ Len(uart') = Len(uart) + 2 + 2 * PtrBytes
                 /\ \A k \in (Len(uart) + 3)..Len(uart') :
                        uart'[k] \in {HexDigits[d] : d \in 1..16}]_vars

\* a string with a NUL inside was written, then 0x0000000040080000, then
\* BOOT_OK
C21_Witness ==
    /\ Len(lcalls) = 3
    /\ lcalls[1] = [fn |-> "log_write", arg |-> <<"a", NUL, "b">>]
    /\ lcalls[2].fn = "write_hex"
    /\ lcalls[3] = [fn |-> "console_write", arg |-> STR_BOOT_OK]
    /\ uart = <<"a", "0", "x", "0", "0", "0", "0", "0", "0", "0", "0", "4",
                "0", "0", "8", "0", "0", "0", "0", "B", "O", "O", "T", "_",
                "O", "K">>

\* ------------------------------------------------------------------------
\* sha1_init on a used context
\* ------------------------------------------------------------------------
\* a context that has held nothing yet
ZeroCtx ==
    [state |-> SubSeq([k \in 1..5 |-> U32(0, 0)], 1, 5), bitlen |-> 0,
     buffer |-> Zeros(64), buflen |-> 0, calls |-> <<>>]

\* the digest of msg computed in one piece from ZeroCtx
FreshDigest(msg) ==
    LET Fin(c) == sha1_final(c)
        Upd(c) == sha1_update(c, msg)
    IN  Let1(Fin, Let1(Upd, sha1_init(ZeroCtx)))

\* C24: the digest that follows a sha1_init is the digest of the bytes fed
\* after it, whatever the context held before: bytes never initialised, or
\* what an earlier init/update/final sequence left in it.
C24_InitResets ==
    /\ (spc = "update" /\ sfed = 0) =>
           /\ sctx.state = InitVector
           /\ sctx.bitlen = 0
           /\ sctx.buflen = 0
    /\ spc \in {"to_hex", "done"} => sdigest = FreshDigest(smsg)

\* the digest of "abc" computed with a context that had produced the digest
\* of another string before
C24_Witness ==
    /\ spc = "done"
    /\ sruns = 1
    /\ smsg = STR_abc
    /\ shex = STR_sha1_abc \o <<NUL>>
    /\ sctx.bitlen = 24
    /\ SubSeq(sctx.buffer, 1, 4) = <<97, 98, 99, 128>>

\* ------------------------------------------------------------------------
\* What the gate lets an observer see
\* ------------------------------------------------------------------------
\* the console byte stream, the log buffer and the flag
Observed == <<uart, fallback_log, log_pos, boot_trampoline_crc_ok>>

\* what a gate that has reported success shows at position p for entry
\* address e
SuccessView(p, e) ==
    <<IF p = "telemetry" THEN StatusLine(e, STR_ok)
      ELSE StatusLine(e, STR_ok) \o MarkerOk,
      StatusLine(e, STR_ok)
          \o SubSeq(ZeroedLog, 1,
                    BOOT_TRAMPOLINE_LOG_SIZE - Len(StatusLine(e, STR_ok))),
      Len(StatusLine(e, STR_ok)),
      1>>

\* C25: once the gate has reported, what it has emitted after a bypass and
\* after a match is the same function of the entry address and of how far
\* the run has come: console bytes, log buffer and flag do not tell the two
\* outcomes apart.
C25_BypassLooksVerified ==
    ((Verified \/ Bypassed)
         /\ pc \in {"telemetry", "handoff", "rust_early_init", "spin"}) =>
        Observed = SuccessView(pc, entry)

\* a bypass with a header CRC that does not match the memory, at the
\* hand-off
C25_Witness ==
    /\ Bypassed
    /\ hdr.crc # crc32_calc(mem, Len(mem))
    /\ pc = "rust_early_init"
    /\ Observed = SuccessView("handoff", entry)

\* ------------------------------------------------------------------------
\* The root task (bootloader.c): detect_role and script_for_role
\* ------------------------------------------------------------------------
COH_BOOT_ROLE_BUF == 32

STR_QueenPrimary ==
    <<"Q", "u", "e", "e", "n", "P", "r", "i", "m", "a", "r", "y">>
STR_RegionalQueen ==
    <<"R", "e", "g", "i", "o", "n", "a", "l", "Q", "u", "e", "e", "n">>
STR_BareMetalQueen ==
    <<"B", "a", "r", "e", "M", "e", "t", "a", "l", "Q", "u", "e", "e", "n">>
STR_KioskInteractive ==
    <<"K", "i", "o", "s", "k", "I", "n", "t", "e", "r", "a", "c", "t", "i",
      "v", "e">>
STR_InteractiveAiBooth ==
    <<"I", "n", "t", "e", "r", "a", "c", "t", "i", "v", "e", "A", "i", "B",
      "o", "o", "t", "h">>
STR_DroneWorker ==
    <<"D", "r", "o", "n", "e", "W", "o", "r", "k", "e", "r">>
STR_GlassesAgent ==
    <<"G", "l", "a", "s", "s", "e", "s", "A", "g", "e", "n", "t">>
STR_SensorRelay ==
    <<"S", "e", "n", "s", "o", "r", "R", "e", "l", "a", "y">>
STR_SimulatorTest ==
    <<"S", "i", "m", "u", "l", "a", "t", "o", "r", "T", "e", "s", "t">>

\* the slip of leaving one name out of the comparison chain
RecognisedRolesShort ==
    {STR_QueenPrimary, STR_RegionalQueen, STR_BareMetalQueen,
     STR_KioskInteractive, STR_InteractiveAiBooth, STR_DroneWorker,
     STR_SensorRelay, STR_SimulatorTest}

\* the names of the strcmp chain of detect_role
RecognisedRoles ==
    {STR_QueenPrimary, STR_RegionalQueen, STR_BareMetalQueen,
     STR_KioskInteractive, STR_InteractiveAiBooth, STR_DroneWorker,
     STR_GlassesAgent, STR_SensorRelay, STR_SimulatorTest}

\* fgets(buf, n, f) at the start of a file holding data: the characters up
\* to and including the first '\n', at most n - 1 of them, then '\0';
\* <<>> stands for the NULL it returns when there is no character
fgets(n, data) ==
    LET nls == {i \in 1..Len(data) : data[i] = "\n"}
        upto == IF nls = {} THEN Len(data)
                ELSE CHOOSE i \in nls : \A j \in nls : i <= j
    IN  IF Len(data) = 0 THEN <<>>
        ELSE SubSeq(data, 1, Min(n - 1, upto)) \o <<NUL>>

\* strcspn(str, "\r\n"): the number of characters of the string before the
\* first CR or LF
strcspn(str) ==
    LET text == CString(str)
        hits == {i \in 1..Len(text) : text[i] \in {"\r", "\n"}}
    IN  IF hits = {} THEN Len(text)
        ELSE (CHOOSE i \in hits : \A j \in hits : i <= j) - 1

\* detect_role with COHROLE = e and /srv/cohrole = f: the string returned
detect_role(e, f) ==
    IF e.set /\ e.val # <<>> THEN e.val
    ELSE IF ~f.exists THEN STR_DroneWorker
    ELSE LET buf == fgets(COH_BOOT_ROLE_BUF, f.data)
             cut == IF buf = <<>> THEN <<>>
                    ELSE [buf EXCEPT ![strcspn(buf) + 1] = NUL]
         IN  IF buf # <<>> /\ CString(cut) \in RecognisedRoles
             THEN CString(cut)
             ELSE STR_DroneWorker

\* the slip of sending GlassesAgent to the kiosk script
script_for_role_GlassesKiosk(r) ==
    CASE r = STR_DroneWorker -> "/init/worker.rc"
      [] r \in {STR_KioskInteractive, STR_InteractiveAiBooth,
                STR_GlassesAgent} -> "/init/kiosk.rc"
      [] r = STR_SensorRelay -> "/init/sensor.rc"
      [] r = STR_SimulatorTest -> "/init/simtest.rc"
      [] OTHER -> "/init/queen.rc"

script_for_role(r) ==
    IF r = STR_DroneWorker THEN "/init/worker.rc"
    ELSE IF r = STR_KioskInteractive THEN "/init/kiosk.rc"
    ELSE IF r = STR_InteractiveAiBooth THEN "/init/kiosk.rc"
    ELSE IF r = STR_SensorRelay THEN "/init/sensor.rc"
    ELSE IF r = STR_SimulatorTest THEN "/init/simtest.rc"
    ELSE "/init/queen.rc"

\* the nine role names of the system
NineRoles ==
    {STR_QueenPrimary, STR_RegionalQueen, STR_BareMetalQueen,
     STR_KioskInteractive, STR_InteractiveAiBooth, STR_DroneWorker,
     STR_GlassesAgent, STR_SensorRelay, STR_SimulatorTest}

\* A caller of detect_role and script_for_role
STR_Bogus == <<"B", "o", "g", "u", "s">>

\* n times the character ch
Run(ch, n) == SubSeq([k \in 1..n |-> ch], 1, n)

\* values of COHROLE: not set, empty, names the chain knows, names it does
\* not, in any spelling
RoleEnvs ==
    {NoEnvVar, [set |-> TRUE, val |-> <<>>]}
        \cup {[set |-> TRUE, val |-> v] :
                 v \in {STR_GlassesAgent, STR_KioskInteractive, STR_Bogus,
                        <<"d", "r", "o", "n", "e">>,
                        STR_SensorRelay \o <<" ">>}}

\* contents of /srv/cohrole: no file, no character, each name with and
\* without line ends, names that are none, lines too long for the buffer
RoleFiles ==
    {NoFile, File(<<>>), File(<<"\n">>), File(<<"\r", "\n">>)}
        \cup {File(r) : r \in NineRoles}
        \cup {File(r \o <<"\n">>) : r \in NineRoles}
        \cup {File(STR_SensorRelay \o <<"\r", "\n">>),
              File(STR_SimulatorTest \o <<"\r">>),
              File(STR_QueenPrimary \o <<"\n">> \o STR_Bogus \o <<"\n">>),
              File(<<"\n">> \o STR_QueenPrimary \o <<"\n">>),
              File(<<" ">> \o STR_DroneWorker),
              File(STR_DroneWorker \o <<" ", "\n">>),
              File(STR_Bogus \o <<"\n">>),
              File(<<"q", "u", "e", "e", "n", "p", "r", "i", "m", "a", "r",
                     "y">>),
              File(STR_RegionalQueen \o STR_BareMetalQueen),
              File(Run("x", 31) \o <<"\n">>),
              File(Run(" ", 31) \o STR_DroneWorker \o <<"\n">>),
              File(STR_InteractiveAiBooth \o Run(" ", 13) \o <<"\n">>)}

RoleInit ==
    /\ bpc = "detect_role"
    /\ env \in RoleEnvs
    /\ bootargs = NoFile
    /\ cohrole \in RoleFiles
    /\ validator = FALSE
    /\ role = <<>>
    /\ script = "none"
    /\ armed = FALSE
    /\ boot_error = <<>>
    /\ bootlog = <<>>
    /\ bconsole = <<>>
    /\ bsuccess = <<>>
    /\ caps = "none"
    /\ bstatus = -1
    /\ bevents = <<>>
    /\ wrote_role = FALSE
    /\ execs = <<>>
    /\ opens = <<>>

\* role = detect_role()
Role_Detect ==
    /\ bpc = "detect_role"
    /\ role' = detect_role(env, cohrole)
    /\ bpc' = "script_for_role"
    /\ UNCHANGED <<env, bootargs, cohrole, validator, script, armed,
                   boot_error, bootlog, bconsole, bsuccess, caps, bstatus,
                   bevents, wrote_role, execs, opens>>
    /\ UNCHANGED <<tvars, crcVars, shaVars, efiVars, lcalls>>

\* script = script_for_role(role)
Role_Script ==
    /\ bpc = "script_for_role"
    /\ script' = script_for_role(role)
    /\ bpc' = "done"
    /\ UNCHANGED <<env, bootargs, cohrole, validator, role, armed,
                   boot_error, bootlog, bconsole, bsuccess, caps, bstatus,
                   bevents, wrote_role, execs, opens>>
    /\ UNCHANGED <<tvars, crcVars, shaVars, efiVars, lcalls>>

RoleNext ==
    \/ Role_Detect
    \/ Role_Script

RoleBoot ==
    RoleInit /\ NoTrampoline /\ NoCrcCaller /\ NoShaCaller /\ NoEfi
        /\ NoLogCaller

SpecRole == RoleBoot /\ [][RoleNext]_vars

\* the characters of text before its first CR or LF, found from the front
RECURSIVE FirstLine(_)
FirstLine(text) ==
    IF Len(text) = 0 \/ text[1] \in {"\r", "\n"} THEN <<>>
    ELSE <<text[1]>> \o FirstLine(Tail(text))

\* C27: detect_role returns COHROLE as it is when it is set and not empty;
\* otherwise the first line of /srv/cohrole without CR/LF if that is one of
\* the nine role names, and "DroneWorker" when the file is missing or empty
\* or its first line is no such name; so without COHROLE the result is one
\* of the nine names.
C27_DetectRole ==
    role # <<>> =>
        /\ (env.set /\ env.val # <<>>) => role = env.val
        /\ ~(env.set /\ env.val # <<>>) =>
               /\ role \in NineRoles
               /\ role = (IF cohrole.exists
                              /\ FirstLine(cohrole.data) \in NineRoles
                          THEN FirstLine(cohrole.data)
                          ELSE STR_DroneWorker)

\* COHROLE is set but empty and /srv/cohrole holds "SensorRelay\r\n"
C27_Witness ==
    /\ env = [set |-> TRUE, val |-> <<>>]
    /\ cohrole = File(STR_SensorRelay \o <<"\r", "\n">>)
    /\ role = STR_SensorRelay

\* C28: script_for_role gives /init/worker.rc for DroneWorker,
\* /init/kiosk.rc for KioskInteractive and InteractiveAiBooth,
\* /init/sensor.rc for SensorRelay, /init/simtest.rc for SimulatorTest and
\* /init/queen.rc for every other string, GlassesAgent and names that are
\* no role included.
C28_ScriptForRole ==
    script # "none" =>
        script = (CASE role = STR_DroneWorker -> "/init/worker.rc"
                    [] role = STR_KioskInteractive -> "/init/kiosk.rc"
                    [] role = STR_InteractiveAiBooth -> "/init/kiosk.rc"
                    [] role = STR_SensorRelay -> "/init/sensor.rc"
                    [] role = STR_SimulatorTest -> "/init/simtest.rc"
                    [] OTHER -> "/init/queen.rc")

\* the script chosen for a role from the environment that is no role name
C28_Witness ==
    /\ role = STR_Bogus
    /\ script = "/init/queen.rc"

\* ------------------------------------------------------------------------
\* The root task (bootloader.c): main and the watchdog
\* ------------------------------------------------------------------------
STR_COHROLE ==
    <<"C", "O", "H", "R", "O", "L", "E">>
STR_validator_missing ==
    <<"v", "a", "l", "i", "d", "a", "t", "o", "r", "_", "m", "i", "s", "s",
      "i", "n", "g">>
STR_ok_nl == <<"o", "k", "\n">>

\* sizeof(buf) of load_bootargs and of boot_fail
BootargsBuf == 256
BootFailBuf == 64

\* the delimiters load_bootargs gives strtok
Delims == {" ", "\n", "\r", "\t"}

\* the tokens strtok finds in text, in order
RECURSIVE Tokens(_, _)
Tokens(text, cur) ==
    IF Len(text) = 0 THEN (IF cur = <<>> THEN <<>> ELSE <<cur>>)
    ELSE IF text[1] \in Delims
         THEN (IF cur = <<>> THEN <<>> ELSE <<cur>>)
                  \o Tokens(Tail(text), <<>>)
         ELSE Tokens(Tail(text), Append(cur, text[1]))

\* strchr(tok, '='): the position of the first '=' of tok, 0 if none
strchr(tok) ==
    LET eqs == {i \in 1..Len(tok) : tok[i] = "="}
    IN  IF eqs = {} THEN 0 ELSE CHOOSE i \in eqs : \A j \in eqs : i <= j

\* the loop of load_bootargs over the tokens toks: st holds COHROLE and
\* /srv/cohrole, srv tells whether fopen(COH_PATH_COHROLE, "w") succeeds
RECURSIVE TokenLoop(_, _, _)
TokenLoop(toks, st, srv) ==
    IF Len(toks) = 0 THEN st
    ELSE LET tok == toks[1]
             eq == strchr(tok)
             name == SubSeq(tok, 1, eq - 1)
             val == SubSeq(tok, eq + 1, Len(tok))
             next ==
                 IF eq = 0 \/ name # STR_COHROLE THEN st
                 ELSE [env |-> [set |-> TRUE, val |-> val],
                       file |-> IF srv THEN File(val) ELSE st.file]
         IN  TokenLoop(Tail(toks), next, srv)

\* load_bootargs: COHROLE and /srv/cohrole afterwards
load_bootargs(e, args, f, srv) ==
    IF ~args.exists THEN [env |-> e, file |-> f]
    ELSE LET n == Min(BootargsBuf - 1, Len(args.data))
             buf == CString(SubSeq(args.data, 1, n) \o <<NUL>>)
         IN  TokenLoop(Tokens(buf, <<>>), [env |-> e, file |-> f], srv)

\* emit_console: what /dev/console has received afterwards, opened telling
\* whether open("/dev/console") succeeded
emit_console(con, msg, opened) ==
    IF opened THEN con \o CString(msg) \o <<"\n">> ELSE con

\* the slip of leaving the reason out of the marker
boot_fail_text_NoReason(reason) == STR_BOOT_FAIL \o <<NUL>>

\* the buffer snprintf fills in boot_fail
boot_fail_text(reason) ==
    LET str == STR_BOOT_FAIL \o CString(reason)
    IN  SubSeq(str, 1, Min(BootFailBuf - 1, Len(str))) \o <<NUL>>

\* the slip of starting the queen script whatever the role
ArgvOfQueen(sc) == <<"/bin/rc", "/init/queen.rc">>

\* argv of main
ArgvOf(sc) == <<"/bin/rc", sc>>

\* the steps of main that are inside stdio calls (fopen, fread, fgets,
\* fprintf, fclose, printf, snprintf)
StdioSteps ==
    {"load_bootargs", "detect_role", "write_role", "log_boot",
     "assign_caps", "validator"}

\* watchdog_handler calls fopen, fprintf and fclose, none async-signal-
\* safe.  When the signal interrupts main outside stdio the handler adds
\* the line if fopen succeeds and exits; when it interrupts a stdio call
\* the behaviour is undefined, and the process may also block for ever
\* on a lock main holds.
HandlerOutcomes(at) ==
    IF at \in StdioSteps THEN {"logged", "not logged", "blocked"}
    ELSE {"logged", "not logged"}

\* inputs of main
BootEnvs ==
    {NoEnvVar, [set |-> TRUE, val |-> STR_GlassesAgent],
     [set |-> TRUE, val |-> STR_Bogus]}

BootArgs ==
    {NoFile,
     File(<<"q", "u", "i", "e", "t", " ">> \o STR_COHROLE \o <<"=">>
              \o STR_SensorRelay \o <<"\n">>),
     File(STR_COHROLE \o <<"=", "\t", "x", "=", "1">>)}

BootRoleFiles ==
    {NoFile, File(STR_KioskInteractive \o <<"\n">>), File(STR_Bogus)}

BootInit ==
    /\ bpc = "start"
    /\ env \in BootEnvs
    /\ bootargs \in BootArgs
    /\ cohrole \in BootRoleFiles
    /\ validator \in BOOLEAN
    /\ role = <<>>
    /\ script = "none"
    /\ armed = FALSE
    /\ boot_error = <<>>
    /\ bootlog = <<>>
    /\ bconsole = <<>>
    /\ bsuccess = <<>>
    /\ caps = "none"
    /\ bstatus = -1
    /\ bevents = <<>>
    /\ wrote_role = FALSE
    /\ execs = <<>>
    /\ opens = <<>>

\* signal(SIGALRM, watchdog_handler); alarm(COH_BOOT_WATCHDOG_SECS)
B_Arm ==
    /\ bpc = "start"
    /\ armed' = TRUE
    /\ bpc' = "load_bootargs"
    /\ UNCHANGED <<env, bootargs, cohrole, validator, role, script,
                   boot_error, bootlog, bconsole, bsuccess, caps, bstatus,
                   bevents, wrote_role, execs, opens>>
    /\ UNCHANGED <<tvars, crcVars, shaVars, efiVars, lcalls>>

\* load_bootargs()
B_LoadBootargs ==
    /\ bpc = "load_bootargs"
    /\ \E srv \in BOOLEAN :
           LET st == load_bootargs(env, bootargs, cohrole, srv)
           IN  /\ env' = st.env
               /\ cohrole' = st.file
    /\ bevents' = Append(bevents, "load_bootargs")
    /\ bpc' = "detect_role"
    /\ UNCHANGED <<bootargs, validator, role, script, armed, boot_error,
                   bootlog, bconsole, bsuccess, caps, bstatus, wrote_role,
                   execs, opens>>
    /\ UNCHANGED <<tvars, crcVars, shaVars, efiVars, lcalls>>

\* const char *role = detect_role()
B_DetectRole ==
    /\ bpc = "detect_role"
    /\ role' = detect_role(env, cohrole)
    /\ bevents' = Append(bevents, "detect_role")
    /\ bpc' = "write_role"
    /\ UNCHANGED <<env, bootargs, cohrole, validator, script, armed,
                   boot_error, bootlog, bconsole, bsuccess, caps, bstatus,
                   wrote_role, execs, opens>>
    /\ UNCHANGED <<tvars, crcVars, shaVars, efiVars, lcalls>>

\* f = fopen(srv_path, "w"); if (f) fprintf(f, "%s", role)
B_WriteRole ==
    /\ bpc = "write_role"
    /\ \E opened \in BOOLEAN :
           /\ cohrole' = IF opened THEN File(CString(role \o <<NUL>>))
                         ELSE cohrole
           /\ wrote_role' = opened
    /\ bevents' = Append(bevents, "write_role")
    /\ bpc' = "log_boot"
    /\ UNCHANGED <<env, bootargs, validator, role, script, armed,
                   boot_error, bootlog, bconsole, bsuccess, caps, bstatus,
                   execs, opens>>
    /\ UNCHANGED <<tvars, crcVars, shaVars, efiVars, lcalls>>

\* f = fopen(COH_PATH_BOOT_LOG, "a"); if (f) fprintf(f, "%ld, %s, %d\n")
B_LogBoot ==
    /\ bpc = "log_boot"
    /\ \E opened \in BOOLEAN :
           bootlog' = IF opened
                      THEN Append(bootlog,
                                  [role |-> CString(role \o <<NUL>>),
                                   crc_ok |-> boot_trampoline_crc_ok])
                      ELSE bootlog
    /\ bevents' = Append(bevents, "log_boot")
    /\ bpc' = "assign_caps"
    /\ UNCHANGED <<env, bootargs, cohrole, validator, role, script, armed,
                   boot_error, bconsole, bsuccess, caps, bstatus,
                   wrote_role, execs, opens>>
    /\ UNCHANGED <<tvars, crcVars, shaVars, efiVars, lcalls>>

\* assign_caps(role)
B_AssignCaps ==
    /\ bpc = "assign_caps"
    /\ \E err \in {"seL4_NoError", "error"} :
           caps' = IF err # "seL4_NoError" THEN "cap copy failed"
                   ELSE "caps assigned"
    /\ bevents' = Append(bevents, "assign_caps")
    /\ bpc' = "validator"
    /\ UNCHANGED <<env, bootargs, cohrole, validator, role, script, armed,
                   boot_error, bootlog, bconsole, bsuccess, bstatus,
                   wrote_role, execs, opens>>
    /\ UNCHANGED <<tvars, crcVars, shaVars, efiVars, lcalls>>

\* if (access(...) == 0) boot_success(); else boot_fail(...)
B_Validator ==
    /\ bpc = "validator"
    /\ \E opened \in BOOLEAN, created \in BOOLEAN :
           IF validator
           THEN /\ bconsole' = emit_console(bconsole,
                                            STR_BOOT_OK \o <<NUL>>, opened)
                /\ bsuccess' = IF created THEN STR_ok_nl ELSE bsuccess
                /\ opens' = opens \o <<[path |-> "/dev/console",
                                         fd |-> opened],
                                        [path |-> "COH_BOOT_SUCCESS_PATH",
                                         fd |-> created]>>
           ELSE /\ bconsole' =
                       emit_console(bconsole,
                                    boot_fail_text(STR_validator_missing
                                                       \o <<NUL>>),
                                    opened)
                /\ bsuccess' = bsuccess
                /\ opens' = Append(opens, [path |-> "/dev/console",
                                           fd |-> opened])
    /\ bevents' = Append(bevents, "validator")
    /\ bpc' = "script_for_role"
    /\ UNCHANGED <<env, bootargs, cohrole, validator, role, script, armed,
                   boot_error, bootlog, caps, bstatus, wrote_role, execs>>
    /\ UNCHANGED <<tvars, crcVars, shaVars, efiVars, lcalls>>

\* const char *script = script_for_role(role)
B_Script ==
    /\ bpc = "script_for_role"
    /\ script' = script_for_role(role)
    /\ bevents' = Append(bevents, "script_for_role")
    /\ bpc' = "alarm"
    /\ UNCHANGED <<env, bootargs, cohrole, validator, role, armed,
                   boot_error, bootlog, bconsole, bsuccess, caps, bstatus,
                   wrote_role, execs, opens>>
    /\ UNCHANGED <<tvars, crcVars, shaVars, efiVars, lcalls>>

\* alarm(0)
B_Disarm ==
    /\ bpc = "alarm"
    /\ armed' = FALSE
    /\ bevents' = Append(bevents, "alarm(0)")
    /\ bpc' = "execv"
    /\ UNCHANGED <<env, bootargs, cohrole, validator, role, script,
                   boot_error, bootlog, bconsole, bsuccess, caps, bstatus,
                   wrote_role, execs, opens>>
    /\ UNCHANGED <<tvars, crcVars, shaVars, efiVars, lcalls>>

\* execv(argv[0], argv); perror("execv rc"); return 1
B_Exec ==
    /\ bpc = "execv"
    /\ execs' = Append(execs, ArgvOf(script))
    /\ bevents' = Append(bevents, "execv")
    /\ \E replaced \in BOOLEAN :
           IF replaced
           THEN bpc' = "rc" /\ bstatus' = bstatus
           ELSE bpc' = "returned" /\ bstatus' = 1
    /\ UNCHANGED <<env, bootargs, cohrole, validator, role, script, armed,
                   boot_error, bootlog, bconsole, bsuccess, caps,
                   wrote_role, opens>>
    /\ UNCHANGED <<tvars, crcVars, shaVars, efiVars, lcalls>>

\* SIGALRM is delivered: watchdog_handler
B_Watchdog ==
    /\ armed
    /\ \E out \in HandlerOutcomes(bpc) :
           /\ boot_error' = IF out = "logged"
                            THEN Append(boot_error, "watchdog timeout")
                            ELSE boot_error
           /\ bstatus' = IF out = "blocked" THEN bstatus ELSE 1
           /\ bpc' = IF out = "blocked" THEN "blocked" ELSE "exited"
    /\ armed' = FALSE
    /\ bevents' = Append(bevents, "watchdog_handler")
    /\ UNCHANGED <<env, bootargs, cohrole, validator, role, script,
                   bootlog, bconsole, bsuccess, caps, wrote_role, execs,
                   opens>>
    /\ UNCHANGED <<tvars, crcVars, shaVars, efiVars, lcalls>>

MainNext ==
    \/ B_Arm
    \/ B_LoadBootargs
    \/ B_DetectRole
    \/ B_WriteRole
    \/ B_LogBoot
    \/ B_AssignCaps
    \/ B_Validator
    \/ B_Script
    \/ B_Disarm
    \/ B_Exec
    \/ B_Watchdog

MainBoot ==
    BootInit /\ TrampolineIdle /\ boot_trampoline_crc_ok \in {0, 1}
        /\ NoCrcCaller /\ NoShaCaller /\ NoEfi /\ NoLogCaller

SpecBoot == MainBoot /\ [][MainNext]_vars

\* whether ev is among the calls made so far
Has(ev) == \E i \in 1..Len(bevents) : bevents[i] = ev

\* the boot is over: /bin/rc runs, main returned, the handler exited the
\* process or blocked it
BootEnded == bpc \in {"rc", "returned", "exited", "blocked"}

\* C22: the watchdog is disabled only once the hand-off to the init script
\* has succeeded; when it fires before being disabled the handler appends
\* a "watchdog timeout" line to /state/boot_error and the process exits
\* with status 1 without any exec of the init script; once disabled it
\* does not fire.
C22_WatchdogGuardsHandOff ==
    /\ (Has("alarm(0)") /\ Has("execv")) => bpc = "rc"
    /\ Has("watchdog_handler") =>
           /\ boot_error = <<"watchdog timeout">>
           /\ bstatus = 1
           /\ execs = <<>>
           /\ ~Has("alarm(0)")

\* the calls of main in the order of its text
MainOrder ==
    <<"load_bootargs", "detect_role", "write_role", "log_boot",
      "assign_caps", "validator", "script_for_role", "alarm(0)", "execv">>

IsMainCall(ev) == ev # "watchdog_handler"

\* the init script of a role
RefScript(r) ==
    CASE r = STR_DroneWorker -> "/init/worker.rc"
      [] r \in {STR_KioskInteractive, STR_InteractiveAiBooth} ->
             "/init/kiosk.rc"
      [] r = STR_SensorRelay -> "/init/sensor.rc"
      [] r = STR_SimulatorTest -> "/init/simtest.rc"
      [] OTHER -> "/init/queen.rc"

\* C23: main runs its phases in the documented order: role detection, the
\* write of the role to /srv/cohrole and the boot log line carrying the
\* role and the trampoline CRC flag, assign_caps, then the exec of /bin/rc
\* with the init script; the script passed to exec is the one of the role
\* that was written to /srv/cohrole, and exec is attempted at most once.
C23_PhaseOrder ==
    LET calls == SelectSeq(bevents, IsMainCall)
    IN  /\ calls = SubSeq(MainOrder, 1, Len(calls))
        /\ Len(execs) <= 1
        /\ Len(bootlog) <= 1
        /\ bootlog # <<>> =>
               bootlog[1] = [role |-> role,
                             crc_ok |-> boot_trampoline_crc_ok]
        /\ (wrote_role /\ ~BootEnded) => cohrole = File(role)
        /\ execs # <<>> =>
               /\ wrote_role => cohrole = File(role)
               /\ wrote_role =>
                      execs[1] = <<"/bin/rc", RefScript(cohrole.data)>>
               /\ execs[1] = <<"/bin/rc", RefScript(role)>>

\* bootargs set COHROLE=SensorRelay over GlassesAgent in the environment;
\* the role was written and logged and /bin/rc runs the sensor script
C23_Witness ==
    /\ bpc = "rc"
    /\ wrote_role
    /\ cohrole = File(STR_SensorRelay)
    /\ Len(bootlog) = 1
    /\ caps = "caps assigned"
    /\ execs = <<<<"/bin/rc", "/init/sensor.rc">>>>

\* the line emit_console writes for a marker
MarkerLine(v) ==
    IF v THEN STR_BOOT_OK \o <<"\n">>
    ELSE STR_BOOT_FAIL \o STR_validator_missing \o <<"\n">>

\* C26 as claimed: every boot that reaches the validator check emits
\* exactly one of BOOT_OK and BOOT_FAIL:validator_missing, BOOT_OK and the
\* write of the boot-success file exactly when /srv/validator/live.sock
\* exists, and in both cases main goes on to disable the watchdog and exec
\* the init script.
C26_ExactlyOneMarker ==
    Has("validator") =>
        /\ bconsole = MarkerLine(validator)
        /\ (bsuccess = STR_ok_nl) <=> validator
        /\ BootEnded => (Has("alarm(0)") /\ Has("execv"))

\* C26: after the validator check /dev/console has received one marker
\* line if it could be opened and nothing otherwise, BOOT_OK exactly when
\* /srv/validator/live.sock exists and BOOT_FAIL:validator_missing when it
\* does not; the boot-success file is written exactly when the socket
\* exists and the file could be opened; and unless the watchdog fires
\* first main goes on to alarm(0) and execv in both cases.
C26_MarkerWhenConsoleOpens ==
    Has("validator") =>
        /\ Len(opens) = (IF validator THEN 2 ELSE 1)
        /\ opens[1].path = "/dev/console"
        /\ bconsole = (IF opens[1].fd THEN MarkerLine(validator) ELSE <<>>)
        /\ bsuccess = (IF validator /\ opens[2].fd THEN STR_ok_nl ELSE <<>>)
        /\ (BootEnded /\ ~Has("watchdog_handler")) =>
               (Has("alarm(0)") /\ Has("execv"))

\* the validator socket is missing, the console opened, and /bin/rc runs
C26_Witness ==
    /\ ~validator
    /\ bconsole = STR_BOOT_FAIL \o STR_validator_missing \o <<"\n">>
    /\ bsuccess = <<>>
    /\ bpc = "rc"

====
